---- MODULE Spec2Model ----
(***************************************************************************)
(* Inventory-aging and sell-through analytics of boutiqueflow              *)
(* (src/server.js): the item_receipts / sales_transactions tables, the     *)
(* receiving ingestion of runNightlySync, the Aging & Velocity Engine in   *)
(* its two copies (POST /api/inventory/sync and the InventoryIQ step of    *)
(* runNightlySync), the inventory_cache snapshot and GET                   *)
(* /api/inventory/data.                                                    *)
(*                                                                         *)
(* Time is counted in ticks, DayLen ticks to the day, so that timestamps   *)
(* have sub-day resolution and Math.floor / ROUND are not the identity.    *)
(* Money is counted in cents where the source holds DECIMAL(10,2) dollars  *)
(* and in mills (tenths of a cent) where it multiplies by 2.5 or 0.4.      *)
(***************************************************************************)
EXTENDS Integers, Sequences, FiniteSets, TLC

\* ------------------------------------------------------------------------
\* Bounds of the model
\* ------------------------------------------------------------------------
\* ticks per day (the source has 86,400,000 ms per day)
DayLen == 3
\* results per upstream page (100 in the source, scaled down)
PerPage == 2
\* largest clock value the Tick action reaches
MaxClock == 1
\* largest number of sync_log rows (runNightlySync calls)
MaxRuns == 1

\* ------------------------------------------------------------------------
\* Program constants
\* ------------------------------------------------------------------------
EmergencyDays == 120
DeadDays == 90
SlowDays == 60
WatchDays == 45
Window30 == 30
VelocityWindowDays == 180
MinItemsSold == 3
MaxInventoryPages == 100

Windows == {Window30, WatchDays, SlowDays, DeadDays}

\* ------------------------------------------------------------------------
\* Arithmetic helpers
\* ------------------------------------------------------------------------
Max(S) == CHOOSE x \in S : \A y \in S : y <= x
Min(S) == CHOOSE x \in S : \A y \in S : x <= y

RECURSIVE Sum(_, _)
Sum(f, S) == IF S = {} THEN 0
             ELSE LET x == CHOOSE y \in S : TRUE
                  IN f[x] + Sum(f, S \ {x})

\* Math.round(n / d) for d > 0: the nearest integer, halves towards
\* +infinity (Math.round(x) = floor(x + 0.5))
MathRound(n, d) == (2 * n + d) \div (2 * d)

\* Math.floor((now - receivedDate) / (1000 * 60 * 60 * 24))
DaysSince(now, receivedDate) == (now - receivedDate) \div DayLen

\* SQL MAX over strings: the order of the names the model uses
NameOrder == <<"", "Acme", "Blouse", "Skirts", "Tops", "Uncategorized",
               "Unknown", "Unknown Item", "Unknown Vendor", "Zeta", "r1", "r2", "r3",
               "r4">>
NameRank(s) == CHOOSE k \in 1..Len(NameOrder) : NameOrder[k] = s
MaxName(S) == CHOOSE s \in S : \A t \in S : NameRank(t) <= NameRank(s)

\* ------------------------------------------------------------------------
\* Values
\* ------------------------------------------------------------------------
\* an inventory entry without item_id (`if (!inv.item_id) continue`)
NoItem == "none"
OrDefault(s, d) == IF s = "" THEN d ELSE s

\* ------------------------------------------------------------------------
\* The engine's queries (pool.query) as functions of the tables
\* ------------------------------------------------------------------------
\* the query with MIN(received_date): the first receipt instead of the last
ReceiveDataQueryFirst(rows) ==
  [i \in {r.item_id : r \in rows} |->
     LET g == {r \in rows : r.item_id = i}
     IN [receivedDate |-> Min({r.received_date : r \in g}),
         qtyReceived  |-> Sum([r \in g |-> r.qty_received], g),
         name         |-> MaxName({r.item_name : r \in g}),
         category     |-> MaxName({r.category : r \in g}),
         vendor       |-> MaxName({r.vendor : r \in g}),
         cost         |-> Max({r.unit_cost : r \in g})]]

\* SELECT item_id, MAX(received_date), SUM(qty_received), MAX(item_name),
\*        MAX(category), MAX(vendor), MAX(unit_cost)
\* FROM item_receipts GROUP BY item_id, and the itemReceiveData map built
\* from its rows.  unit_cost is in cents.
ReceiveDataQuery(rows) ==
  [i \in {r.item_id : r \in rows} |->
     LET g == {r \in rows : r.item_id = i}
     IN [receivedDate |-> Max({r.received_date : r \in g}),
         qtyReceived  |-> Sum([r \in g |-> r.qty_received], g),
         name         |-> MaxName({r.item_name : r \in g}),
         category     |-> MaxName({r.category : r \in g}),
         vendor       |-> MaxName({r.vendor : r \in g}),
         cost         |-> Max({r.unit_cost : r \in g})]]

\* SELECT item_id, SUM(quantity), MAX(unit_price) FROM sales_transactions
\* WHERE item_id IS NOT NULL GROUP BY item_id, and the itemSoldData map.
SoldDataQuery(sales) ==
  [i \in {r.item_id : r \in sales} |->
     LET g == {r \in sales : r.item_id = i}
     IN [qtySold |-> Sum([r \in g |-> r.quantity], g),
         price   |-> Max({r.unit_price : r \in g})]]

\* The category_sales / vendor_sales CTE: one row per (name, item_id) over
\* the rows of the last 180 days whose name is not the placeholder.
VelocityCTE(sales, dbNow, field, placeholder) ==
  LET inWindow == {r \in sales :
                     /\ r[field] # placeholder
                     /\ r.transaction_date > dbNow - VelocityWindowDays * DayLen}
      keys == {<<r[field], r.item_id>> : r \in inWindow}
  IN {[name       |-> k[1],
       item_id    |-> k[2],
       first_sale |-> Min({r.transaction_date : r \in
                            {q \in inWindow : q[field] = k[1] /\ q.item_id = k[2]}}),
       last_sale  |-> Max({r.transaction_date : r \in
                            {q \in inWindow : q[field] = k[1] /\ q.item_id = k[2]}})]
      : k \in keys}

\* the query without WHERE first_sale != last_sale
AllRows(cte) == cte

\* WHERE first_sale != last_sale
SpanRows(cte) == {c \in cte : c.first_sale # c.last_sale}

\* ROUND(n / d) of the database, n >= 0: a tie goes away from zero when the
\* argument is numeric and to the even neighbour when it is double
\* precision; which of the two EXTRACT(EPOCH ...) yields depends on the
\* server, hence halfEven
SqlRound(n, d, halfEven) ==
  LET up == MathRound(n, d)
  IN IF halfEven /\ (2 * n) % (2 * d) = d /\ up % 2 = 1 THEN up - 1 ELSE up

\* SELECT name, COUNT(DISTINCT item_id), ROUND(AVG(span / 86400))::int
\* ... GROUP BY name HAVING COUNT(DISTINCT item_id) >= 3
VelocityRows(sales, dbNow, field, placeholder, halfEven) ==
  LET spans == SpanRows(VelocityCTE(sales, dbNow, field, placeholder))
      names == {c.name : c \in spans}
      grp(n) == {c \in spans : c.name = n}
  IN {[name             |-> n,
       items_sold       |-> Cardinality({c.item_id : c \in grp(n)}),
       avg_days_to_sell |-> SqlRound(
           Sum([c \in grp(n) |-> c.last_sale - c.first_sale], grp(n)),
           DayLen * Cardinality(grp(n)), halfEven)]
      : n \in {m \in names :
                 Cardinality({c.item_id : c \in grp(m)}) >= MinItemsSold}}

\* ORDER BY avg_days_to_sell ASC: every order of the rows the database may
\* return (rows with equal averages come in any order)
RECURSIVE OrderedAsc(_)
OrderedAsc(rows) ==
  IF rows = {} THEN {<<>>}
  ELSE LET lo == Min({r.avg_days_to_sell : r \in rows})
       IN UNION {{<<r>> \o rest : rest \in OrderedAsc(rows \ {r})}
                 : r \in {q \in rows : q.avg_days_to_sell = lo}}

\* .map(r => ({name, avgDaysToSell, itemsSold})).filter(v => v.avgDaysToSell > 0)
RECURSIVE VelocityList(_)
VelocityList(resultRows) ==
  IF resultRows = <<>> THEN <<>>
  ELSE LET r == Head(resultRows)
           v == [name |-> r.name, avgDaysToSell |-> r.avg_days_to_sell,
                 itemsSold |-> r.items_sold]
       IN (IF v.avgDaysToSell > 0 THEN <<v>> ELSE <<>>)
            \o VelocityList(Tail(resultRows))

\* ------------------------------------------------------------------------
\* The engine's computation over the fetched inventory
\* ------------------------------------------------------------------------
\* inventoryLookup[inv.item_id] = inv.qty_on_hand || 0, the last entry of an
\* item winning; `inventoryLookup[itemId] || 0` for an item without entry
InventoryLookup(allInventory, itemId) ==
  LET ks == {k \in 1..Len(allInventory) : allInventory[k].item_id = itemId}
  IN IF ks = {} THEN 0 ELSE allInventory[Max(ks)].qty_on_hand

\* The store health loop: the totals of one window, in cents
\* (totalReceivedCostN, stillOnHandCostN)
StoreHealth(itemReceiveData, allInventory, now, window) ==
  LET ids == {i \in DOMAIN itemReceiveData :
                DaysSince(now, itemReceiveData[i].receivedDate) <= window}
  IN [totalReceivedCost |->
        Sum([i \in ids |-> itemReceiveData[i].qtyReceived * itemReceiveData[i].cost], ids),
      stillOnHandCost |->
        Sum([i \in ids |-> InventoryLookup(allInventory, i) * itemReceiveData[i].cost], ids)]

\* received / stillOnHand / pctOnHand of one window as stored in storeMetrics
\* (Math.round to whole dollars; the percentage guarded by the total)
StoreMetric(itemReceiveData, allInventory, now, window) ==
  LET h == StoreHealth(itemReceiveData, allInventory, now, window)
  IN [received   |-> MathRound(h.totalReceivedCost, 100),
      stillOnHand |-> MathRound(h.stillOnHandCost, 100),
      pctOnHand  |-> IF h.totalReceivedCost > 0
                     THEN MathRound(100 * h.stillOnHandCost, h.totalReceivedCost)
                     ELSE 0]

\* the chain with > for >=: every boundary falls into the bucket below
BucketStrict(daysSinceReceived) ==
  IF daysSinceReceived > EmergencyDays THEN "emergency"
  ELSE IF daysSinceReceived > DeadDays THEN "dead"
  ELSE IF daysSinceReceived > SlowDays THEN "slow"
  ELSE IF daysSinceReceived > WatchDays THEN "watch"
  ELSE "fresh"

\* The if / else-if chain on daysSinceReceived
Bucket(daysSinceReceived) ==
  IF daysSinceReceived >= EmergencyDays THEN "emergency"
  ELSE IF daysSinceReceived >= DeadDays THEN "dead"
  ELSE IF daysSinceReceived >= SlowDays THEN "slow"
  ELSE IF daysSinceReceived >= WatchDays THEN "watch"
  ELSE "fresh"

SuggestedMarkdown(bucket) ==
  CASE bucket = "emergency" -> "60%+ off or bundle/donate"
    [] bucket = "dead"      -> "40-50% off"
    [] bucket = "slow"      -> "20-30% off"
    [] bucket = "watch"     -> "Watch closely"
    [] OTHER                -> "null"

\* the loop without `if (qtyOnHand <= 0) continue`
ConsideredAnyQty(allInventory, itemReceiveData) ==
  {k \in 1..Len(allInventory) :
     /\ allInventory[k].item_id # NoItem
     /\ allInventory[k].item_id \in DOMAIN itemReceiveData}

\* The entries of allInventory the dead stock loop does not `continue` past
Considered(allInventory, itemReceiveData) ==
  {k \in 1..Len(allInventory) :
     /\ allInventory[k].item_id # NoItem
     /\ allInventory[k].qty_on_hand > 0
     /\ allInventory[k].item_id \in DOMAIN itemReceiveData}

\* price and cost without their fallbacks
ItemCalcNoFallback(inv, itemReceiveData, itemSoldData, now) ==
  LET receiveInfo == itemReceiveData[inv.item_id]
      soldInfo == IF inv.item_id \in DOMAIN itemSoldData
                  THEN itemSoldData[inv.item_id]
                  ELSE [qtySold |-> 0, price |-> 0]
      daysSinceReceived == DaysSince(now, receiveInfo.receivedDate)
      price == 10 * soldInfo.price
      cost == 10 * receiveInfo.cost
      bucket == Bucket(daysSinceReceived)
  IN [id                |-> inv.item_id,
      name              |-> OrDefault(receiveInfo.name, "Unknown Item"),
      category          |-> OrDefault(receiveInfo.category, "Uncategorized"),
      vendor            |-> OrDefault(receiveInfo.vendor, "Unknown"),
      qtyReceived       |-> receiveInfo.qtyReceived,
      qtySold           |-> soldInfo.qtySold,
      qtyRemaining      |-> inv.qty_on_hand,
      price             |-> MathRound(price, 10),
      retailValue       |-> MathRound(inv.qty_on_hand * price, 10),
      costValue         |-> MathRound(inv.qty_on_hand * cost, 10),
      receivedDate      |-> receiveInfo.receivedDate \div DayLen,
      daysSinceReceived |-> daysSinceReceived,
      bucket            |-> bucket,
      suggestedMarkdown |-> SuggestedMarkdown(bucket),
      valueOnHand       |-> inv.qty_on_hand * cost]

\* One pass of the dead stock loop body for the inventory entry inv:
\* price and cost in mills, the record pushed to deadStockItems in cents
ItemCalc(inv, itemReceiveData, itemSoldData, now) ==
  LET receiveInfo == itemReceiveData[inv.item_id]
      soldInfo == IF inv.item_id \in DOMAIN itemSoldData
                  THEN itemSoldData[inv.item_id]
                  ELSE [qtySold |-> 0, price |-> 0]
      daysSinceReceived == DaysSince(now, receiveInfo.receivedDate)
      price == IF soldInfo.price # 0 THEN 10 * soldInfo.price
               ELSE 25 * receiveInfo.cost
      cost == IF receiveInfo.cost # 0 THEN 10 * receiveInfo.cost
              ELSE (4 * price) \div 10
      bucket == Bucket(daysSinceReceived)
  IN [id                |-> inv.item_id,
      name              |-> OrDefault(receiveInfo.name, "Unknown Item"),
      category          |-> OrDefault(receiveInfo.category, "Uncategorized"),
      vendor            |-> OrDefault(receiveInfo.vendor, "Unknown"),
      qtyReceived       |-> receiveInfo.qtyReceived,
      qtySold           |-> soldInfo.qtySold,
      qtyRemaining      |-> inv.qty_on_hand,
      price             |-> MathRound(price, 10),
      retailValue       |-> MathRound(inv.qty_on_hand * price, 10),
      costValue         |-> MathRound(inv.qty_on_hand * cost, 10),
      receivedDate      |-> receiveInfo.receivedDate \div DayLen,
      daysSinceReceived |-> daysSinceReceived,
      bucket            |-> bucket,
      suggestedMarkdown |-> SuggestedMarkdown(bucket),
      valueOnHand       |-> inv.qty_on_hand * cost]

\* the list as pushed, without the sort
Unsorted(items) == items

\* deadStockItems.sort((a, b) => b.daysSinceReceived - a.daysSinceReceived):
\* a stable sort, oldest first
RECURSIVE SortByDaysDesc(_)
SortByDaysDesc(items) ==
  IF items = <<>> THEN <<>>
  ELSE LET sorted == SortByDaysDesc(SubSeq(items, 1, Len(items) - 1))
           x == items[Len(items)]
           before == {k \in 1..Len(sorted) :
                        sorted[k].daysSinceReceived >= x.daysSinceReceived}
           n == Cardinality(before)
       IN SubSeq(sorted, 1, n) \o <<x>> \o SubSeq(sorted, n + 1, Len(sorted))

\* the loop without `if (daysSinceReceived >= 45)` around the push
RECURSIVE PushedAll(_, _, _, _)
PushedAll(allInventory, itemReceiveData, itemSoldData, now) ==
  IF allInventory = <<>> THEN <<>>
  ELSE LET n == Len(allInventory)
           rest == PushedAll(SubSeq(allInventory, 1, n - 1),
                             itemReceiveData, itemSoldData, now)
       IN IF n \in Considered(allInventory, itemReceiveData)
          THEN LET c == ItemCalc(allInventory[n], itemReceiveData, itemSoldData, now)
               IN rest \o <<[f \in (DOMAIN c) \ {"valueOnHand"} |-> c[f]]>>
          ELSE rest

\* The records pushed to deadStockItems, in the order of allInventory
RECURSIVE PushedItems(_, _, _, _)
PushedItems(allInventory, itemReceiveData, itemSoldData, now) ==
  IF allInventory = <<>> THEN <<>>
  ELSE LET n == Len(allInventory)
           rest == PushedItems(SubSeq(allInventory, 1, n - 1),
                               itemReceiveData, itemSoldData, now)
       IN IF n \in Considered(allInventory, itemReceiveData)
          THEN LET c == ItemCalc(allInventory[n], itemReceiveData, itemSoldData, now)
               IN IF c.daysSinceReceived >= WatchDays
                  THEN rest \o <<[f \in (DOMAIN c) \ {"valueOnHand"} |-> c[f]]>>
                  ELSE rest
          ELSE rest

\* The bucket counter and value accumulated by the loop for one bucket
\* (totalFresh ... total120Days; valueFresh ... value120Days, in mills)
BucketTotals(allInventory, itemReceiveData, itemSoldData, now, bucket) ==
  LET ks == {k \in Considered(allInventory, itemReceiveData) :
               ItemCalc(allInventory[k], itemReceiveData, itemSoldData, now).bucket = bucket}
  IN [count |-> Cardinality(ks),
      value |-> Sum([k \in ks |->
                  ItemCalc(allInventory[k], itemReceiveData, itemSoldData, now).valueOnHand], ks)]

\* analysisData / inventoryAnalysis: the payload stored in inventory_cache
AnalysisData(allInventory, itemReceiveData, itemSoldData, now, categoryVelocity, vendorVelocity) ==
  LET bt(b) == BucketTotals(allInventory, itemReceiveData, itemSoldData, now, b)
      sm(w) == StoreMetric(itemReceiveData, allInventory, now, w)
      deadStockItems ==
        SortByDaysDesc(PushedItems(allInventory, itemReceiveData, itemSoldData, now))
  IN [deadStock |->
        [summary |->
           [itemsFresh   |-> bt("fresh").count,
            itemsWatch   |-> bt("watch").count,
            items60Days  |-> bt("slow").count,
            items90Days  |-> bt("dead").count,
            items120Days |-> bt("emergency").count,
            valueFresh   |-> MathRound(bt("fresh").value, 10),
            valueWatch   |-> MathRound(bt("watch").value, 10),
            value60Days  |-> MathRound(bt("slow").value, 10),
            value90Days  |-> MathRound(bt("dead").value, 10),
            value120Days |-> MathRound(bt("emergency").value, 10),
            totalItems   |-> bt("watch").count + bt("slow").count
                               + bt("dead").count + bt("emergency").count,
            totalValue   |-> MathRound(bt("watch").value + bt("slow").value
                               + bt("dead").value + bt("emergency").value, 10)],
         storeMetrics |-> [w \in Windows |-> sm(w)],
         items |-> deadStockItems],
      velocity |-> [byCategory |-> categoryVelocity, byVendor |-> vendorVelocity],
      stats |-> [totalItemsAnalyzed |-> Len(allInventory),
                 totalItemsWithReceiveData |-> Cardinality(DOMAIN itemReceiveData),
                 totalDeadStockItems |-> Len(deadStockItems)]]

\* ------------------------------------------------------------------------
\* State
\* ------------------------------------------------------------------------
VARIABLES
  clock,              \* the time (CURRENT_TIMESTAMP, NOW(), new Date()), in ticks
  item_receipts,      \* table item_receipts: a set of rows
  sales_transactions, \* table sales_transactions: a set of rows
  inventory_cache,    \* table inventory_cache: a set of rows
  upstreamInventory,  \* what /inventory/values lists upstream, listing, in page order
  upstreamReceipts,   \* the ids of the complete receipts upstream lists
  sync,               \* the POST /api/inventory/sync handler: position and locals
  sync_log,           \* table sync_log: the sequence of its rows, by id
  nightly,            \* the runNightlySync calls: position and locals of each
  dataResponse,       \* the last response of GET /api/inventory/data
  lastWrite,          \* history: the most recent write to inventory_cache
  customers,          \* table customers: a set of rows
  sales_cache,        \* table sales_cache: a set of rows
  vendorCache,        \* the module's vendorCache Map: a set of entries
  upstreamSales,      \* what /reporting/sales lists upstream
  upstreamCustomers,  \* what /customers lists upstream
  upstreamVendor,     \* the name upstream gives the vendor v1
  triggerResponse,    \* the last response of POST /api/sync/nightly or manual
  processed_items,    \* table processed_items: a set of rows
  statusResponse,     \* the last answer of a status update or of getItemStatus
  receiptSkip,        \* the POST /api/receipts/:id/skip handler: position, locals
  lastStatus,         \* history: the status last stored for each key, and
                      \* how many times one was stored
  receipt_cache,      \* table receipt_cache: a set of rows
  receiptsResponse,   \* the last response of GET /api/receipts
  fetchAll            \* a fetchAllPages call: position, locals, what it met

vars == <<clock, item_receipts, sales_transactions, inventory_cache,
          upstreamInventory, upstreamReceipts, sync, sync_log, nightly,
          dataResponse, lastWrite, customers, sales_cache, vendorCache,
          upstreamSales, upstreamCustomers, upstreamVendor, triggerResponse,
          processed_items, statusResponse, receiptSkip, lastStatus,
          receipt_cache, receiptsResponse, fetchAll>>

tables == <<item_receipts, sales_transactions>>
bg == <<sync_log, nightly>>
upstream == <<upstreamInventory, upstreamReceipts>>
listing == <<receipt_cache, receiptsResponse, fetchAll>>
statuses == <<processed_items, statusResponse, receiptSkip, lastStatus>>
salesSide == <<customers, sales_cache, upstreamSales, upstreamCustomers>>
vendors == <<vendorCache, upstreamVendor>>
\* everything but the listing
unlisted == <<clock, tables, inventory_cache, upstream, sync, bg, dataResponse,
              lastWrite, salesSide, vendors, triggerResponse, statuses>>
NoWrite == [by |-> "none"]
NoResponse == [status |-> 0]

\* ------------------------------------------------------------------------
\* The upstream client and the store
\* ------------------------------------------------------------------------
\* heartlandRequest(`/inventory/values?group[]=item_id&per_page=100&page=${page}`)
\* when it does not throw: the results of that page
InventoryPage(page) ==
  SubSeq(upstreamInventory, (page - 1) * PerPage + 1,
         IF page * PerPage < Len(upstreamInventory)
         THEN page * PerPage ELSE Len(upstreamInventory))

\* the INSERT without its ON CONFLICT clause and without the unique key
InsertCache(cache, key, data, at) ==
  cache \cup {[cache_key |-> key, data |-> data, synced_at |-> at]}

\* INSERT INTO inventory_cache ... ON CONFLICT (cache_key) DO UPDATE SET
\* data = $1, synced_at = CURRENT_TIMESTAMP
UpsertCache(cache, key, data, at) ==
  {r \in cache : r.cache_key # key}
    \cup {[cache_key |-> key, data |-> data, synced_at |-> at]}

\* GET /api/inventory/data when the query does not throw
GetInventoryData(cache) ==
  LET rows == {r \in cache : r.cache_key = "inventory_analysis"}
  IN IF rows = {}
     THEN [status |-> 200, error |-> "No data yet", syncedAt |-> "null"]
     ELSE LET row == CHOOSE r \in rows : TRUE
          IN [status |-> 200, data |-> row.data, syncedAt |-> row.synced_at]

\* ------------------------------------------------------------------------
\* POST /api/inventory/sync
\* ------------------------------------------------------------------------
EngineIdle ==
  [pc |-> "idle", now |-> 0, categoryVelocity |-> <<>>, vendorVelocity |-> <<>>,
   itemReceiveData |-> <<>>, itemSoldData |-> <<>>, allInventory |-> <<>>,
   page |-> 1, hasMore |-> TRUE, fetchFailed |-> FALSE]

\* the record of a cache write kept in lastWrite
WriteRecord(by, run, data) ==
  [by |-> by, data |-> data, synced_at |-> clock, now |-> run.now,
   allInventory |-> run.allInventory, fetchFailed |-> run.fetchFailed]

\* the handler starts: const now = new Date()
SyncBegin ==
  /\ sync.pc = "idle"
  /\ sync' = [EngineIdle EXCEPT !.pc = "category", !.now = clock]
  /\ UNCHANGED <<salesSide, vendors, triggerResponse, statuses,
                 bg, clock, tables, inventory_cache, upstream, listing,
                 dataResponse, lastWrite>>

\* categoryVelocityResult and the categoryVelocity list
CategoryVelocityStep(run) ==
  {[run EXCEPT !.pc = "vendor", !.categoryVelocity = VelocityList(rows)]
     : rows \in UNION {OrderedAsc(VelocityRows(sales_transactions, clock,
                             "category", "Uncategorized", halfEven))
                        : halfEven \in BOOLEAN}}

\* vendorVelocityResult and the vendorVelocity list
VendorVelocityStep(run) ==
  {[run EXCEPT !.pc = "receive", !.vendorVelocity = VelocityList(rows)]
     : rows \in UNION {OrderedAsc(VelocityRows(sales_transactions, clock,
                             "vendor", "Unknown", halfEven))
                        : halfEven \in BOOLEAN}}

\* receiveDataResult and itemReceiveData
ReceiveDataStep(run) ==
  [run EXCEPT !.pc = "sold", !.itemReceiveData = ReceiveDataQuery(item_receipts)]

\* soldDataResult and itemSoldData; allInventory = [], page = 1, hasMore = true
SoldDataStep(run) ==
  [run EXCEPT !.pc = "fetch", !.itemSoldData = SoldDataQuery(sales_transactions),
              !.allInventory = <<>>, !.page = 1, !.hasMore = TRUE]

\* while (hasMore && page <= 100)
FetchLoopRuns(run) == run.hasMore /\ run.page <= MaxInventoryPages

\* one iteration of the inventory loop whose request succeeds
FetchPageStep(run) ==
  LET results == InventoryPage(run.page)
  IN [run EXCEPT !.allInventory = run.allInventory \o results,
                 !.hasMore = (Len(results) = PerPage),
                 !.page = run.page + 1]

\* one iteration whose request throws: catch (e) { hasMore = false }
FetchErrorStep(run) ==
  [run EXCEPT !.hasMore = FALSE, !.fetchFailed = TRUE]

SyncCategoryVelocity ==
  /\ sync.pc = "category"
  /\ sync' \in CategoryVelocityStep(sync)
  /\ UNCHANGED <<salesSide, vendors, triggerResponse, statuses,
                 bg, clock, tables, inventory_cache, upstream, listing,
                 dataResponse, lastWrite>>

SyncVendorVelocity ==
  /\ sync.pc = "vendor"
  /\ sync' \in VendorVelocityStep(sync)
  /\ UNCHANGED <<salesSide, vendors, triggerResponse, statuses,
                 bg, clock, tables, inventory_cache, upstream, listing,
                 dataResponse, lastWrite>>

SyncReceiveData ==
  /\ sync.pc = "receive"
  /\ sync' = ReceiveDataStep(sync)
  /\ UNCHANGED <<salesSide, vendors, triggerResponse, statuses,
                 bg, clock, tables, inventory_cache, upstream, listing,
                 dataResponse, lastWrite>>

SyncSoldData ==
  /\ sync.pc = "sold"
  /\ sync' = SoldDataStep(sync)
  /\ UNCHANGED <<salesSide, vendors, triggerResponse, statuses,
                 bg, clock, tables, inventory_cache, upstream, listing,
                 dataResponse, lastWrite>>

SyncFetchPage ==
  /\ sync.pc = "fetch" /\ FetchLoopRuns(sync)
  /\ sync' = FetchPageStep(sync)
  /\ UNCHANGED <<salesSide, vendors, triggerResponse, statuses,
                 bg, clock, tables, inventory_cache, upstream, listing,
                 dataResponse, lastWrite>>

SyncFetchError ==
  /\ sync.pc = "fetch" /\ FetchLoopRuns(sync)
  /\ sync' = FetchErrorStep(sync)
  /\ UNCHANGED <<salesSide, vendors, triggerResponse, statuses,
                 bg, clock, tables, inventory_cache, upstream, listing,
                 dataResponse, lastWrite>>

\* steps 5 and 6 and the cache upsert; res.json({success: true, ...})
SyncSave ==
  /\ sync.pc = "fetch" /\ ~FetchLoopRuns(sync)
  /\ LET analysisData == AnalysisData(sync.allInventory, sync.itemReceiveData,
                                      sync.itemSoldData, sync.now,
                                      sync.categoryVelocity, sync.vendorVelocity)
     IN /\ inventory_cache' = UpsertCache(inventory_cache, "inventory_analysis",
                                          analysisData, clock)
        /\ lastWrite' = WriteRecord("sync", sync, analysisData)
  /\ sync' = [EngineIdle EXCEPT !.pc = "ok"]
  /\ UNCHANGED <<salesSide, vendors, triggerResponse, statuses,
                 bg, clock, tables, upstream, listing, dataResponse>>

\* a pool.query of the handler throws: catch (error) { res.status(500) }
SyncQueryError ==
  /\ \/ sync.pc \in {"category", "vendor", "receive", "sold"}
     \/ sync.pc = "fetch" /\ ~FetchLoopRuns(sync)
  /\ sync' = [EngineIdle EXCEPT !.pc = "error"]
  /\ UNCHANGED <<salesSide, vendors, triggerResponse, statuses,
                 bg, clock, tables, inventory_cache, upstream, listing,
                 dataResponse, lastWrite>>

\* the response is sent; the next request may come
SyncRespond ==
  /\ sync.pc \in {"ok", "error"}
  /\ sync' = EngineIdle
  /\ UNCHANGED <<salesSide, vendors, triggerResponse, statuses,
                 bg, clock, tables, inventory_cache, upstream, listing,
                 dataResponse, lastWrite>>

\* ------------------------------------------------------------------------
\* GET /api/inventory/data
\* ------------------------------------------------------------------------
GetData ==
  /\ dataResponse' = GetInventoryData(inventory_cache)
  /\ dataResponse' # dataResponse
  /\ UNCHANGED <<salesSide, vendors, triggerResponse, statuses,
                 bg, clock, tables, inventory_cache, upstream, listing, sync, lastWrite>>

\* the query throws: res.status(500)
GetDataError ==
  /\ dataResponse' = [status |-> 500]
  /\ dataResponse' # dataResponse
  /\ UNCHANGED <<salesSide, vendors, triggerResponse, statuses,
                 bg, clock, tables, inventory_cache, upstream, listing, sync, lastWrite>>

\* ------------------------------------------------------------------------
\* runNightlySync: sync_log, receiving ingestion (step 6), InventoryIQ (step 7)
\* ------------------------------------------------------------------------
NightlySlots == {"n1", "n2"}

\* what the upstream may answer to the requests of the receiving ingestion
ReceiptIds == {"r1", "r2"}
UpstreamReceipt(id, date) == [id |-> id, completed_at |-> date]
UpstreamLine(item, qty, cost) == [item_id |-> item, qty |-> qty, unit_cost |-> cost]
ReceiptDates == {0, 1}
\* the documents r1 and r2 are being edited upstream (any of the dates and
\* line lists may be answered), r3 and r4 are settled
DatesOf(id) == IF id \in {"r3", "r4"} THEN {1} ELSE ReceiptDates
RECURSIVE ReceiptListsOf(_)
ReceiptListsOf(ids) ==
  IF ids = {} THEN {<<>>}
  ELSE LET r == CHOOSE x \in ids : \A y \in ids : NameRank(x) <= NameRank(y)
       IN {<<UpstreamReceipt(r, d)>> \o rest :
             d \in DatesOf(r), rest \in ReceiptListsOf(ids \ {r})}
ReceiptLists == ReceiptListsOf(upstreamReceipts)
LineLists ==
  {<<>>,
   <<UpstreamLine("i1", 1, 100)>>,
   <<UpstreamLine("i1", 2, 250), UpstreamLine(NoItem, 1, 100),
     UpstreamLine("i2", 1, 100)>>}
\* the lines of r4: two of them reference the item i1
TwoLinesOneItem ==
  <<UpstreamLine("i1", 2, 250), UpstreamLine(NoItem, 1, 100),
    UpstreamLine("i1", 3, 250)>>
LinesOf(id) ==
  IF id = "r3"
  THEN {<<UpstreamLine("i1", 2, 250), UpstreamLine(NoItem, 1, 100),
          UpstreamLine("i2", 1, 100)>>}
  ELSE IF id = "r4" THEN {TwoLinesOneItem}
  ELSE LineLists
\* what /items/:id answers: i2 has no primary vendor
UpstreamItem(item) ==
  [name |-> "Blouse", category |-> "Tops",
   size |-> IF item = "i2" THEN "" ELSE "M",
   primary_vendor_id |-> IF item = "i2" THEN NoItem ELSE "v1"]
DefaultDetails ==
  [name |-> "Unknown Item", category |-> "Uncategorized", vendor |-> "Unknown",
   size |-> ""]
\* a line of /reporting/sales; completed is the updated_at that
\* /sales/tickets/:id answers for its ticket
UpstreamSale(ticket, line, customer, item, datetime, completed, qty, price) ==
  [transaction_id |-> ticket, transaction_line_id |-> line,
   customer_id |-> customer, item_id |-> item, datetime |-> datetime,
   completed |-> completed, net_qty_sold |-> qty, unit_price |-> price,
   net_sales |-> qty * price]
UpstreamCustomer(id, firstName) == [id |-> id, first_name |-> firstName]

\* null where a timestamp is expected
NoTime == -1
NoStats ==
  [total_purchases |-> 0, lifetime_value |-> 0, first_purchase |-> NoTime,
   last_purchase |-> NoTime, preferred_brands |-> <<>>,
   preferred_sizes |-> <<>>, preferred_categories |-> <<>>]

NightlyIdle ==
  EngineIdle @@
  [logId |-> 0, totalRecords |-> 0, receipts |-> <<>>, lines |-> <<>>,
   details |-> DefaultDetails, receiptItemCount |-> 0, invError |-> FALSE,
   sales |-> <<>>, ticketTimestamps |-> <<>>, itemDetailsCache |-> <<>>,
   pending |-> <<>>, transactionCount |-> 0, custs |-> <<>>, stats |-> NoStats,
   customerCount |-> 0, vendorFrom |-> 0, error |-> "null",
   bulkFailed |-> "null"]

\* the first slot holds a run, the other is at rest
OnlyFirst(run) == [n \in NightlySlots |-> IF n = "n1" THEN run ELSE NightlyIdle]

\* the INSERT without its ON CONFLICT clause and without the unique key
InsertItemReceipt(rows, row) == rows \cup {row}

\* INSERT INTO item_receipts (...) VALUES (...) ON CONFLICT (item_id, receipt_id)
\* DO UPDATE SET received_date, qty_received, unit_cost, item_name, category,
\* vendor = EXCLUDED.*   (item_color and item_size go the way of item_name)
UpsertItemReceipt(rows, row) ==
  {r \in rows : ~(r.item_id = row.item_id /\ r.receipt_id = row.receipt_id)}
    \cup {row}

\* the parameters of the upsert of one line
ReceiptRow(receipt, line, details) ==
  [item_id |-> line.item_id, receipt_id |-> receipt.id,
   received_date |-> receipt.completed_at,
   qty_received |-> line.qty, unit_cost |-> line.unit_cost,
   item_name |-> details.name, category |-> details.category,
   vendor |-> details.vendor]

\* for (const line of lines.results) { if (!line.item_id) continue; ...
WithItem(lines) == SelectSeq(lines, LAMBDA l : l.item_id # NoItem)

\* the loops over receipts and lines move on: the position after the current
\* line (or, with the lines exhausted or abandoned, after the current receipt)
AfterLine(run, lines) ==
  IF lines # <<>>
  THEN [run EXCEPT !.pc = "item", !.lines = lines]
  ELSE [run EXCEPT !.pc = "receipt", !.lines = <<>>, !.receipts = Tail(run.receipts)]

\* POST /api/sync/nightly with the valid key, or POST /api/sync/manual:
\* res.json({status: 'running'}), then runNightlySync() up to its first
\* await, the INSERT of createSyncLog
NightlyBegin(n) ==
  /\ nightly[n].pc = "idle"
  /\ Len(sync_log) + Cardinality({m \in NightlySlots : nightly[m].pc = "create"})
       < MaxRuns
  /\ triggerResponse' = [status |-> 200, body |-> "running"]
  /\ nightly' = [nightly EXCEPT ![n] = [NightlyIdle EXCEPT !.pc = "create"]]
  /\ UNCHANGED <<salesSide, vendors, statuses, sync_log, clock, tables,
                 inventory_cache, upstream, listing, sync, dataResponse, lastWrite>>

\* const logId = await createSyncLog('nightly_full'): INSERT INTO sync_log
\* (sync_type, status) VALUES ($1, 'running') RETURNING id
NightlyCreateLog(n) ==
  /\ nightly[n].pc = "create"
  /\ sync_log' = Append(sync_log, [status |-> "running", records_processed |-> 0,
                                   started_at |-> clock, error_message |-> "null"])
  /\ nightly' = [nightly EXCEPT ![n] =
                   [NightlyIdle EXCEPT !.pc = "sales", !.logId = Len(sync_log) + 1]]
  /\ UNCHANGED <<salesSide, vendors, triggerResponse, statuses, clock, tables,
                 inventory_cache, upstream, listing, sync, dataResponse, lastWrite>>

\* that INSERT throws, outside the try block: the promise rejects and
\* runNightlySync().catch logs it
NightlyCreateLogError(n) ==
  /\ nightly[n].pc = "create"
  /\ nightly' = [nightly EXCEPT ![n] = NightlyIdle]
  /\ UNCHANGED <<salesSide, vendors, triggerResponse, statuses, sync_log, clock,
                 tables, inventory_cache, upstream, listing, sync, dataResponse, lastWrite>>

\* POST /api/sync/nightly with another key: 401, no run
NightlyUnauthorized ==
  /\ triggerResponse # [status |-> 401, body |-> "Invalid sync key"]
  /\ triggerResponse' = [status |-> 401, body |-> "Invalid sync key"]
  /\ UNCHANGED <<salesSide, vendors, statuses, bg, clock, tables,
                 inventory_cache, upstream, listing, sync, dataResponse, lastWrite>>

\* the run throws: everything up to the catch block of runNightlySync
Throw(run, message) == [run EXCEPT !.pc = "catch", !.error = message]

\* fetchAllPages throws (bulkFailed keeps which window it was, as history)
ThrowBulk(run, message) == [Throw(run, message) EXCEPT !.bulkFailed = message]

\* step 1: sales = await fetchAllPages('/reporting/sales?...')
NightlyFetchSales(n) ==
  /\ nightly[n].pc = "sales"
  /\ nightly' = [nightly EXCEPT ![n] =
                   [nightly[n] EXCEPT !.pc = "tickets", !.sales = upstreamSales]]
  /\ UNCHANGED <<salesSide, vendors, triggerResponse, statuses, sync_log, clock,
                 tables, inventory_cache, upstream, listing, sync, dataResponse, lastWrite>>

\* a page of that fetch throws
NightlyFetchSalesError(n) ==
  /\ nightly[n].pc = "sales"
  /\ nightly' = [nightly EXCEPT ![n] = ThrowBulk(nightly[n], "sales fetch")]
  /\ UNCHANGED <<salesSide, vendors, triggerResponse, statuses, sync_log, clock,
                 tables, inventory_cache, upstream, listing, sync, dataResponse, lastWrite>>

\* [...new Set(sales.map(f).filter(Boolean))] in the order of first occurrence
RECURSIVE UniqueOf(_, _)
UniqueOf(sales, field) ==
  IF sales = <<>> THEN <<>>
  ELSE LET front == UniqueOf(SubSeq(sales, 1, Len(sales) - 1), field)
           x == sales[Len(sales)][field]
       IN IF x = NoItem \/ \E k \in 1..Len(front) : front[k] = x
          THEN front ELSE Append(front, x)
SeqToSet(q) == {q[k] : k \in 1..Len(q)}

\* ticket.updated_at as /sales/tickets/:id answers it
TicketUpdatedAt(sales, t) ==
  sales[CHOOSE k \in 1..Len(sales) : sales[k].transaction_id = t].completed

\* step 2: the loop over uniqueTicketIds; a ticket whose request throws is
\* given null, the others their updated_at (the loop touches locals only)
TicketsFetched(run, failed) ==
  [run EXCEPT
     !.pc = "details",
     !.pending = UniqueOf(run.sales, "item_id"),
     !.ticketTimestamps =
        [t \in SeqToSet(UniqueOf(run.sales, "transaction_id")) |->
           IF t \in failed THEN NoTime ELSE TicketUpdatedAt(run.sales, t)]]

NightlyFetchTickets(n) ==
  /\ nightly[n].pc = "tickets"
  /\ nightly' = [nightly EXCEPT ![n] = TicketsFetched(nightly[n], {})]
  /\ UNCHANGED <<salesSide, vendors, triggerResponse, statuses, sync_log, clock,
                 tables, inventory_cache, upstream, listing, sync, dataResponse, lastWrite>>

\* the requests of some tickets throw: catch (e) { ticketTimestamps[id] = null }
NightlyFetchTicketsError(n) ==
  /\ nightly[n].pc = "tickets"
  /\ \E failed \in SUBSET SeqToSet(UniqueOf(nightly[n].sales, "transaction_id")) :
       /\ failed # {}
       /\ nightly' = [nightly EXCEPT ![n] = TicketsFetched(nightly[n], failed)]
  /\ UNCHANGED <<salesSide, vendors, triggerResponse, statuses, sync_log, clock,
                 tables, inventory_cache, upstream, listing, sync, dataResponse, lastWrite>>

\* vendorCache.has / get / set; by is the run that set the entry (history)
VendorCached(id) == \E e \in vendorCache : e.id = id
CachedVendor(id) == CHOOSE e \in vendorCache : e.id = id
VendorCacheSet(cache, id, name, by) ==
  {e \in cache : e.id # id} \cup {[id |-> id, name |-> name, by |-> by]}

\* itemDetailsCache[itemId] = {category, brand, vendor, name, size}; next item
StoreDetail(run, item, details, vendorName, from) ==
  [run EXCEPT
     !.pc = "details",
     !.pending = Tail(run.pending),
     !.vendorFrom = from,
     !.itemDetailsCache =
        [i \in (DOMAIN run.itemDetailsCache) \cup {item} |->
           IF i = item
           THEN [category |-> details.category, brand |-> vendorName,
                 vendor |-> vendorName, name |-> details.name,
                 size |-> details.size]
           ELSE run.itemDetailsCache[i]]]

\* vendor = await getVendorName(item.primary_vendor_id) of the receipt line
WithVendor(run, vendorName, from) ==
  [run EXCEPT !.pc = "upsert", !.vendorFrom = from,
              !.details = [run.details EXCEPT !.vendor = vendorName]]

\* step 3: item = await heartlandRequest(`/items/${itemId}`), and
\* getVendorName up to its request (a cached name is returned at once)
NightlyFetchDetail(n) ==
  /\ nightly[n].pc = "details" /\ nightly[n].pending # <<>>
  /\ LET run == nightly[n]
         item == Head(run.pending)
         it == UpstreamItem(item)
         vid == it.primary_vendor_id
     IN nightly' = [nightly EXCEPT ![n] =
          IF vid = NoItem THEN StoreDetail(run, item, it, "Unknown", 0)
          ELSE IF VendorCached(vid)
          THEN StoreDetail(run, item, it, CachedVendor(vid).name, CachedVendor(vid).by)
          ELSE [run EXCEPT !.pc = "detailVendor",
                           !.details = [name |-> it.name, category |-> it.category,
                                        vendor |-> "Unknown", size |-> it.size]]]
  /\ UNCHANGED <<salesSide, vendors, triggerResponse, statuses, sync_log, clock,
                 tables, inventory_cache, upstream, listing, sync, dataResponse, lastWrite>>

\* the item request throws: catch (e) { defaults }
NightlyFetchDetailError(n) ==
  /\ nightly[n].pc = "details" /\ nightly[n].pending # <<>>
  /\ nightly' = [nightly EXCEPT ![n] =
       StoreDetail(nightly[n], Head(nightly[n].pending), DefaultDetails, "Unknown", 0)]
  /\ UNCHANGED <<salesSide, vendors, triggerResponse, statuses, sync_log, clock,
                 tables, inventory_cache, upstream, listing, sync, dataResponse, lastWrite>>

\* getVendorName: vendor = await heartlandRequest(`/purchasing/vendors/${id}`);
\* vendorCache.set(vendorId, name)
NightlyFetchVendor(n) ==
  /\ nightly[n].pc \in {"detailVendor", "itemVendor"}
  /\ vendorCache' = VendorCacheSet(vendorCache, "v1", upstreamVendor, nightly[n].logId)
  /\ nightly' = [nightly EXCEPT ![n] =
       IF nightly[n].pc = "detailVendor"
       THEN StoreDetail(nightly[n], Head(nightly[n].pending), nightly[n].details,
                        upstreamVendor, nightly[n].logId)
       ELSE WithVendor(nightly[n], upstreamVendor, nightly[n].logId)]
  /\ UNCHANGED <<salesSide, upstreamVendor, triggerResponse, statuses, sync_log,
                 clock, tables, inventory_cache, upstream, listing, sync, dataResponse,
                 lastWrite>>

\* getVendorName: the request throws: return 'Unknown Vendor'
NightlyFetchVendorError(n) ==
  /\ nightly[n].pc \in {"detailVendor", "itemVendor"}
  /\ nightly' = [nightly EXCEPT ![n] =
       IF nightly[n].pc = "detailVendor"
       THEN StoreDetail(nightly[n], Head(nightly[n].pending), nightly[n].details,
                        "Unknown Vendor", 0)
       ELSE WithVendor(nightly[n], "Unknown Vendor", 0)]
  /\ UNCHANGED <<salesSide, vendors, triggerResponse, statuses, sync_log, clock,
                 tables, inventory_cache, upstream, listing, sync, dataResponse, lastWrite>>

\* the details are fetched; for (const sale of sales) { if (!sale.item_id) continue
NightlyDetailsDone(n) ==
  /\ nightly[n].pc = "details" /\ nightly[n].pending = <<>>
  /\ nightly' = [nightly EXCEPT ![n] =
       [nightly[n] EXCEPT !.pc = "insert",
          !.sales = SelectSeq(nightly[n].sales, LAMBDA x : x.item_id # NoItem)]]
  /\ UNCHANGED <<salesSide, vendors, triggerResponse, statuses, sync_log, clock,
                 tables, inventory_cache, upstream, listing, sync, dataResponse, lastWrite>>

\* a row of sales_transactions
SaleRecord(ticket, line, customer, item, date, qty, price, total, details) ==
  [heartland_ticket_id |-> ticket, heartland_line_id |-> line,
   customer_id |-> customer, item_id |-> item, transaction_date |-> date,
   quantity |-> qty, unit_price |-> price, total_amount |-> total,
   category |-> details.category, vendor |-> details.vendor,
   brand |-> details.brand, item_name |-> details.name,
   item_size |-> details.size]

\* the parameters of the upsert of one sale
SaleParams(run, sale) ==
  LET itemDetails == IF sale.item_id \in DOMAIN run.itemDetailsCache
                     THEN run.itemDetailsCache[sale.item_id]
                     ELSE [category |-> "Uncategorized", vendor |-> "Unknown",
                           brand |-> "Unknown", name |-> "Unknown Item",
                           size |-> ""]
      ticketInfo == run.ticketTimestamps[sale.transaction_id]
      transactionDate == IF ticketInfo # NoTime THEN ticketInfo ELSE sale.datetime
  IN SaleRecord(sale.transaction_id,
                IF sale.transaction_line_id = NoItem THEN "0"
                ELSE sale.transaction_line_id,
                sale.customer_id, sale.item_id, transactionDate,
                IF sale.net_qty_sold = 0 THEN 1 ELSE sale.net_qty_sold,
                sale.unit_price, sale.net_sales, itemDetails)

\* every column of the new row replaces the stored one
UpsertSaleAll(rows, row) ==
  {r \in rows : ~(/\ r.heartland_ticket_id = row.heartland_ticket_id
                  /\ r.heartland_line_id = row.heartland_line_id)} \cup {row}

\* INSERT INTO sales_transactions ... ON CONFLICT (heartland_ticket_id,
\* heartland_line_id) DO UPDATE SET customer_id, quantity, unit_price,
\* total_amount (and location_name) = EXCLUDED.*
UpsertSale(rows, row) ==
  LET same(r) == /\ r.heartland_ticket_id = row.heartland_ticket_id
                 /\ r.heartland_line_id = row.heartland_line_id
  IN IF \E r \in rows : same(r)
     THEN {IF same(r)
           THEN [r EXCEPT !.customer_id = row.customer_id,
                          !.quantity = row.quantity,
                          !.unit_price = row.unit_price,
                          !.total_amount = row.total_amount]
           ELSE r : r \in rows}
     ELSE rows \cup {row}

\* the upsert of one sale; transactionCount++
NightlyUpsertSale(n) ==
  /\ nightly[n].pc = "insert" /\ nightly[n].sales # <<>>
  /\ sales_transactions' =
       UpsertSale(sales_transactions, SaleParams(nightly[n], Head(nightly[n].sales)))
  /\ nightly' = [nightly EXCEPT ![n] =
       [nightly[n] EXCEPT !.sales = Tail(nightly[n].sales),
                          !.transactionCount = nightly[n].transactionCount + 1]]
  /\ UNCHANGED <<salesSide, vendors, triggerResponse, statuses, sync_log, clock,
                 item_receipts, inventory_cache, upstream, listing, sync, dataResponse,
                 lastWrite>>

\* the upsert throws: catch (e) { Skip duplicates or errors }, next sale
NightlyUpsertSaleError(n) ==
  /\ nightly[n].pc = "insert" /\ nightly[n].sales # <<>>
  /\ nightly' = [nightly EXCEPT ![n] =
       [nightly[n] EXCEPT !.sales = Tail(nightly[n].sales)]]
  /\ UNCHANGED <<salesSide, vendors, triggerResponse, statuses, sync_log, clock,
                 tables, inventory_cache, upstream, listing, sync, dataResponse, lastWrite>>

\* totalRecords += transactionCount, on to step 4
NightlySalesDone(n) ==
  /\ nightly[n].pc = "insert" /\ nightly[n].sales = <<>>
  /\ nightly' = [nightly EXCEPT ![n] =
       [nightly[n] EXCEPT !.pc = "customers",
          !.totalRecords = nightly[n].totalRecords + nightly[n].transactionCount]]
  /\ UNCHANGED <<salesSide, vendors, triggerResponse, statuses, sync_log, clock,
                 tables, inventory_cache, upstream, listing, sync, dataResponse, lastWrite>>

\* step 4: heartlandCustomers = await fetchAllPages('/customers');
\* for (const cust of heartlandCustomers) { if (!cust.id) continue
NightlyFetchCustomers(n) ==
  /\ nightly[n].pc = "customers"
  /\ nightly' = [nightly EXCEPT ![n] =
       [nightly[n] EXCEPT !.pc = "customer",
          !.custs = SelectSeq(upstreamCustomers, LAMBDA c : c.id # NoItem)]]
  /\ UNCHANGED <<salesSide, vendors, triggerResponse, statuses, sync_log, clock,
                 tables, inventory_cache, upstream, listing, sync, dataResponse, lastWrite>>

\* a page of that fetch throws
NightlyFetchCustomersError(n) ==
  /\ nightly[n].pc = "customers"
  /\ nightly' = [nightly EXCEPT ![n] = ThrowBulk(nightly[n], "customers fetch")]
  /\ UNCHANGED <<salesSide, vendors, triggerResponse, statuses, sync_log, clock,
                 tables, inventory_cache, upstream, listing, sync, dataResponse, lastWrite>>

\* the orders in which a set of keys may come
RECURSIVE OrdersOf(_)
OrdersOf(keys) ==
  IF keys = {} THEN {<<>>}
  ELSE UNION {{<<k>> \o rest : rest \in OrdersOf(keys \ {k})} : k \in keys}

\* statsResult: the aggregates over the rows of the customer
CustomerStats(sales, id) ==
  LET g == {r \in sales : r.customer_id = id}
  IN [total_purchases |-> Cardinality({r.transaction_date \div DayLen : r \in g}),
      lifetime_value |-> Sum([r \in g |-> r.total_amount], g),
      first_purchase |-> IF g = {} THEN NoTime
                         ELSE Min({r.transaction_date : r \in g}),
      last_purchase |-> IF g = {} THEN NoTime
                        ELSE Max({r.transaction_date : r \in g})]

\* LIMIT 5 of the brands and of the categories query
MaxPreferred == 5
Counted(rows, field, v) == Cardinality({r \in rows : r[field] = v})
\* SELECT field, COUNT(*) as cnt ... WHERE customer_id = $1 AND field IS NOT
\* NULL AND field != excluded GROUP BY field ORDER BY cnt DESC LIMIT 5: the
\* lists the query may answer (groups of equal count come in any order)
TopLists(sales, id, field, excluded) ==
  LET g == {r \in sales : r.customer_id = id /\ r[field] # excluded}
      ordered == {q \in OrdersOf({r[field] : r \in g}) :
                    \A i \in 1..(Len(q) - 1) :
                      Counted(g, field, q[i]) >= Counted(g, field, q[i + 1])}
  IN {SubSeq(q, 1, Min({Len(q), MaxPreferred})) : q \in ordered}
\* SELECT DISTINCT item_size ... WHERE customer_id = $1 AND item_size IS NOT
\* NULL AND item_size != '': no ORDER BY, no LIMIT
DistinctLists(sales, id, field) ==
  OrdersOf({r[field] : r \in {q \in sales : q.customer_id = id}} \ {""})
WithPreferred(stats, brands, sizes, categories) ==
  stats @@ [preferred_brands |-> brands, preferred_sizes |-> sizes,
            preferred_categories |-> categories]

\* the queries over sales_transactions for the customer at hand
NightlyCustomerStats(n) ==
  /\ nightly[n].pc = "customer" /\ nightly[n].custs # <<>>
  /\ LET id == Head(nightly[n].custs).id
     IN \E brands \in TopLists(sales_transactions, id, "brand", ""),
           sizes \in DistinctLists(sales_transactions, id, "item_size"),
           categories \in TopLists(sales_transactions, id, "category",
                                   "Uncategorized") :
          nightly' = [nightly EXCEPT ![n] =
            [nightly[n] EXCEPT !.pc = "customerUpsert",
               !.stats = WithPreferred(CustomerStats(sales_transactions, id),
                                       brands, sizes, categories)]]
  /\ UNCHANGED <<salesSide, vendors, triggerResponse, statuses, sync_log, clock,
                 tables, inventory_cache, upstream, listing, sync, dataResponse, lastWrite>>

\* the INSERT without its ON CONFLICT clause and without the unique key
InsertCustomer(rows, row) == rows \cup {row}

\* INSERT INTO customers ... ON CONFLICT (heartland_customer_id) DO UPDATE SET
\* every column = EXCLUDED.*
UpsertCustomer(rows, row) ==
  {r \in rows : r.heartland_customer_id # row.heartland_customer_id} \cup {row}

CustomerRow(cust, stats) ==
  [heartland_customer_id |-> cust.id, first_name |-> cust.first_name,
   total_purchases |-> stats.total_purchases,
   lifetime_value |-> stats.lifetime_value,
   first_purchase_date |-> stats.first_purchase,
   last_purchase_date |-> stats.last_purchase,
   preferred_brands |-> stats.preferred_brands,
   preferred_sizes |-> stats.preferred_sizes,
   preferred_categories |-> stats.preferred_categories]

\* the upsert of the profile; customerCount++
NightlyUpsertCustomer(n) ==
  /\ nightly[n].pc = "customerUpsert"
  /\ customers' = UpsertCustomer(customers,
                                 CustomerRow(Head(nightly[n].custs), nightly[n].stats))
  /\ nightly' = [nightly EXCEPT ![n] =
       [nightly[n] EXCEPT !.pc = "customer", !.custs = Tail(nightly[n].custs),
          !.stats = NoStats, !.customerCount = nightly[n].customerCount + 1]]
  /\ UNCHANGED <<sales_cache, upstreamSales, upstreamCustomers, vendors,
                 triggerResponse, statuses, sync_log, clock, tables,
                 inventory_cache, upstream, listing, sync, dataResponse, lastWrite>>

\* a query over the rows of a customer throws: nothing catches it in the loop
NightlyCustomerError(n) ==
  /\ nightly[n].pc = "customer" /\ nightly[n].custs # <<>>
  /\ nightly' = [nightly EXCEPT ![n] = Throw(nightly[n], "customer query")]
  /\ UNCHANGED <<salesSide, vendors, triggerResponse, statuses, sync_log, clock,
                 tables, inventory_cache, upstream, listing, sync, dataResponse, lastWrite>>

\* the upsert of a customer throws: nothing catches it in the loop either
NightlyUpsertCustomerError(n) ==
  /\ nightly[n].pc = "customerUpsert"
  /\ nightly' = [nightly EXCEPT ![n] = Throw(nightly[n], "customer upsert")]
  /\ UNCHANGED <<salesSide, vendors, triggerResponse, statuses, sync_log, clock,
                 tables, inventory_cache, upstream, listing, sync, dataResponse, lastWrite>>

\* totalRecords += customerCount, on to step 5
NightlyCustomersDone(n) ==
  /\ nightly[n].pc = "customer" /\ nightly[n].custs = <<>>
  /\ nightly' = [nightly EXCEPT ![n] =
       [nightly[n] EXCEPT !.pc = "aggregate",
          !.totalRecords = nightly[n].totalRecords + nightly[n].customerCount]]
  /\ UNCHANGED <<salesSide, vendors, triggerResponse, statuses, sync_log, clock,
                 tables, inventory_cache, upstream, listing, sync, dataResponse, lastWrite>>

\* salesData.categories: revenue and transactions by category over the last
\* 90 days (dailySales, hourlyAvg and heatmap take the same rows by day and
\* hour)
SalesData(sales, dbNow) ==
  LET recent == {r \in sales : r.transaction_date >= dbNow - DeadDays * DayLen}
      named == {r \in recent : r.category # "Uncategorized"}
  IN [categories |->
        {[name |-> c,
          revenue |-> MathRound(Sum([r \in {q \in named : q.category = c}
                                       |-> r.total_amount],
                                    {q \in named : q.category = c}), 100),
          transactions |-> Cardinality({q \in named : q.category = c})]
           : c \in {r.category : r \in named}},
      transactions |-> Cardinality(recent)]

\* step 5: the aggregate queries and the upsert of sales_analysis
NightlyAggregate(n) ==
  /\ nightly[n].pc = "aggregate"
  /\ sales_cache' = UpsertCache(sales_cache, "sales_analysis",
                                SalesData(sales_transactions, clock), clock)
  /\ nightly' = [nightly EXCEPT ![n] = [nightly[n] EXCEPT !.pc = "receipts"]]
  /\ UNCHANGED <<customers, upstreamSales, upstreamCustomers, vendors,
                 triggerResponse, statuses, sync_log, clock, tables,
                 inventory_cache, upstream, listing, sync, dataResponse, lastWrite>>

\* one of them throws
NightlyAggregateError(n) ==
  /\ nightly[n].pc = "aggregate"
  /\ nightly' = [nightly EXCEPT ![n] = Throw(nightly[n], "sales aggregation")]
  /\ UNCHANGED <<salesSide, vendors, triggerResponse, statuses, sync_log, clock,
                 tables, inventory_cache, upstream, listing, sync, dataResponse, lastWrite>>

\* receipts = await fetchAllPages('/purchasing/receipts?...')
NightlyFetchReceipts(n) ==
  /\ nightly[n].pc = "receipts"
  /\ \E receipts \in ReceiptLists :
       nightly' = [nightly EXCEPT ![n] =
                     [nightly[n] EXCEPT !.pc = "receipt", !.receipts = receipts]]
  /\ UNCHANGED <<salesSide, vendors, triggerResponse, statuses,
                 sync_log, clock, tables, inventory_cache, upstream, listing,
                 sync, dataResponse, lastWrite>>

\* the fetch throws: catch (receiptError) { non-fatal }, on to step 7
NightlyFetchReceiptsError(n) ==
  /\ nightly[n].pc = "receipts"
  /\ nightly' = [nightly EXCEPT ![n] =
       [nightly[n] EXCEPT !.pc = "category", !.bulkFailed = "receipts fetch"]]
  /\ UNCHANGED <<salesSide, vendors, triggerResponse, statuses,
                 sync_log, clock, tables, inventory_cache, upstream, listing,
                 sync, dataResponse, lastWrite>>

\* lines = await heartlandRequest(`/purchasing/receipts/${receipt.id}/lines`)
NightlyFetchLines(n) ==
  /\ nightly[n].pc = "receipt" /\ nightly[n].receipts # <<>>
  /\ \E lines \in LinesOf(Head(nightly[n].receipts).id) :
       nightly' = [nightly EXCEPT ![n] = AfterLine(nightly[n], WithItem(lines))]
  /\ UNCHANGED <<salesSide, vendors, triggerResponse, statuses,
                 sync_log, clock, tables, inventory_cache, upstream, listing,
                 sync, dataResponse, lastWrite>>

\* the request throws: catch (e) { Error processing receipt }, next receipt
NightlyFetchLinesError(n) ==
  /\ nightly[n].pc = "receipt" /\ nightly[n].receipts # <<>>
  /\ nightly' = [nightly EXCEPT ![n] = AfterLine(nightly[n], <<>>)]
  /\ UNCHANGED <<salesSide, vendors, triggerResponse, statuses,
                 sync_log, clock, tables, inventory_cache, upstream, listing,
                 sync, dataResponse, lastWrite>>

\* item = await heartlandRequest(`/items/${line.item_id}`), and
\* getVendorName up to its request (a cached name is returned at once)
NightlyFetchItem(n) ==
  /\ nightly[n].pc = "item"
  /\ LET run == nightly[n]
         it == UpstreamItem(Head(run.lines).item_id)
         vid == it.primary_vendor_id
         d == [name |-> it.name, category |-> it.category, vendor |-> "Unknown",
               size |-> it.size]
     IN nightly' = [nightly EXCEPT ![n] =
          IF vid = NoItem THEN [run EXCEPT !.pc = "upsert", !.details = d]
          ELSE IF VendorCached(vid)
          THEN WithVendor([run EXCEPT !.details = d], CachedVendor(vid).name,
                          CachedVendor(vid).by)
          ELSE [run EXCEPT !.pc = "itemVendor", !.details = d]]
  /\ UNCHANGED <<salesSide, vendors, triggerResponse, statuses,
                 sync_log, clock, tables, inventory_cache, upstream, listing,
                 sync, dataResponse, lastWrite>>

\* the request throws: catch (e) { Use defaults }
NightlyFetchItemError(n) ==
  /\ nightly[n].pc = "item"
  /\ nightly' = [nightly EXCEPT ![n] =
                   [nightly[n] EXCEPT !.pc = "upsert", !.details = DefaultDetails]]
  /\ UNCHANGED <<salesSide, vendors, triggerResponse, statuses,
                 sync_log, clock, tables, inventory_cache, upstream, listing,
                 sync, dataResponse, lastWrite>>

\* the upsert into item_receipts; receiptItemCount++
NightlyUpsertReceipt(n) ==
  /\ nightly[n].pc = "upsert"
  /\ item_receipts' =
       UpsertItemReceipt(item_receipts,
                         ReceiptRow(Head(nightly[n].receipts),
                                    Head(nightly[n].lines), nightly[n].details))
  /\ nightly' = [nightly EXCEPT ![n] =
       AfterLine([nightly[n] EXCEPT
                    !.receiptItemCount = nightly[n].receiptItemCount + 1],
                 Tail(nightly[n].lines))]
  /\ UNCHANGED <<salesSide, vendors, triggerResponse, statuses,
                 sync_log, clock, sales_transactions, inventory_cache,
                 upstream, listing, sync, dataResponse, lastWrite>>

\* the upsert throws: the catch around the receipt, on to the next receipt
NightlyUpsertReceiptError(n) ==
  /\ nightly[n].pc = "upsert"
  /\ nightly' = [nightly EXCEPT ![n] = AfterLine(nightly[n], <<>>)]
  /\ UNCHANGED <<salesSide, vendors, triggerResponse, statuses,
                 sync_log, clock, tables, inventory_cache, upstream, listing,
                 sync, dataResponse, lastWrite>>

\* the receipts are done: totalRecords += receiptItemCount, on to step 7
NightlyReceiptsDone(n) ==
  /\ nightly[n].pc = "receipt" /\ nightly[n].receipts = <<>>
  /\ nightly' = [nightly EXCEPT ![n] =
       [nightly[n] EXCEPT !.pc = "category",
          !.totalRecords = nightly[n].totalRecords + nightly[n].receiptItemCount]]
  /\ UNCHANGED <<salesSide, vendors, triggerResponse, statuses,
                 sync_log, clock, tables, inventory_cache, upstream, listing,
                 sync, dataResponse, lastWrite>>

\* step 7, the queries
NightlyCategoryVelocity(n) ==
  /\ nightly[n].pc = "category"
  /\ \E run \in CategoryVelocityStep(nightly[n]) :
       nightly' = [nightly EXCEPT ![n] = run]
  /\ UNCHANGED <<salesSide, vendors, triggerResponse, statuses,
                 sync_log, clock, tables, inventory_cache, upstream, listing,
                 sync, dataResponse, lastWrite>>

NightlyVendorVelocity(n) ==
  /\ nightly[n].pc = "vendor"
  /\ \E run \in VendorVelocityStep(nightly[n]) :
       nightly' = [nightly EXCEPT ![n] = run]
  /\ UNCHANGED <<salesSide, vendors, triggerResponse, statuses,
                 sync_log, clock, tables, inventory_cache, upstream, listing,
                 sync, dataResponse, lastWrite>>

NightlyReceiveData(n) ==
  /\ nightly[n].pc = "receive"
  /\ nightly' = [nightly EXCEPT ![n] = ReceiveDataStep(nightly[n])]
  /\ UNCHANGED <<salesSide, vendors, triggerResponse, statuses,
                 sync_log, clock, tables, inventory_cache, upstream, listing,
                 sync, dataResponse, lastWrite>>

NightlySoldData(n) ==
  /\ nightly[n].pc = "sold"
  /\ nightly' = [nightly EXCEPT ![n] = SoldDataStep(nightly[n])]
  /\ UNCHANGED <<salesSide, vendors, triggerResponse, statuses,
                 sync_log, clock, tables, inventory_cache, upstream, listing,
                 sync, dataResponse, lastWrite>>

\* step 7, the inventory loop; const now = new Date() follows its last pass
NightlyFetchPage(n) ==
  /\ nightly[n].pc = "fetch" /\ FetchLoopRuns(nightly[n])
  /\ nightly' = [nightly EXCEPT ![n] =
                   [FetchPageStep(nightly[n]) EXCEPT !.now = clock]]
  /\ UNCHANGED <<salesSide, vendors, triggerResponse, statuses,
                 sync_log, clock, tables, inventory_cache, upstream, listing,
                 sync, dataResponse, lastWrite>>

NightlyFetchError(n) ==
  /\ nightly[n].pc = "fetch" /\ FetchLoopRuns(nightly[n])
  /\ nightly' = [nightly EXCEPT ![n] =
                   [FetchErrorStep(nightly[n]) EXCEPT !.now = clock]]
  /\ UNCHANGED <<salesSide, vendors, triggerResponse, statuses,
                 sync_log, clock, tables, inventory_cache, upstream, listing,
                 sync, dataResponse, lastWrite>>

\* the step of a copy that stores the list as pushed, without the sort
NightlySaveUnsorted(n) ==
  /\ nightly[n].pc = "fetch" /\ ~FetchLoopRuns(nightly[n])
  /\ LET run == nightly[n]
         sorted == AnalysisData(run.allInventory, run.itemReceiveData,
                                run.itemSoldData, run.now,
                                run.categoryVelocity, run.vendorVelocity)
         inventoryAnalysis ==
           [sorted EXCEPT !.deadStock.items =
              PushedItems(run.allInventory, run.itemReceiveData,
                          run.itemSoldData, run.now)]
     IN /\ inventory_cache' = UpsertCache(inventory_cache, "inventory_analysis",
                                          inventoryAnalysis, clock)
        /\ lastWrite' = WriteRecord(n, run, inventoryAnalysis)
  /\ nightly' = [nightly EXCEPT ![n] = [nightly[n] EXCEPT !.pc = "complete"]]
  /\ UNCHANGED <<salesSide, vendors, triggerResponse, statuses,
                 sync_log, clock, tables, upstream, listing, sync, dataResponse>>

\* step 7, the computation and the cache upsert
NightlySave(n) ==
  /\ nightly[n].pc = "fetch" /\ ~FetchLoopRuns(nightly[n])
  /\ LET run == nightly[n]
         inventoryAnalysis == AnalysisData(run.allInventory, run.itemReceiveData,
                                           run.itemSoldData, run.now,
                                           run.categoryVelocity, run.vendorVelocity)
     IN /\ inventory_cache' = UpsertCache(inventory_cache, "inventory_analysis",
                                          inventoryAnalysis, clock)
        /\ lastWrite' = WriteRecord(n, run, inventoryAnalysis)
  /\ nightly' = [nightly EXCEPT ![n] = [nightly[n] EXCEPT !.pc = "complete"]]
  /\ UNCHANGED <<salesSide, vendors, triggerResponse, statuses,
                 sync_log, clock, tables, upstream, listing, sync, dataResponse>>

\* a pool.query of step 7 throws: catch (invError) { non-fatal }
NightlyInvError(n) ==
  /\ \/ nightly[n].pc \in {"category", "vendor", "receive", "sold"}
     \/ nightly[n].pc = "fetch" /\ ~FetchLoopRuns(nightly[n])
  /\ nightly' = [nightly EXCEPT ![n] =
                   [nightly[n] EXCEPT !.pc = "complete", !.invError = TRUE]]
  /\ UNCHANGED <<salesSide, vendors, triggerResponse, statuses,
                 sync_log, clock, tables, inventory_cache, upstream, listing,
                 sync, dataResponse, lastWrite>>

\* UPDATE sync_log SET status = $1, records_processed = $2,
\* error_message = $3 ... WHERE id = $4
UpdateSyncLog(log, logId, status, recordsProcessed, errorMessage) ==
  [log EXCEPT ![logId] = [@ EXCEPT !.status = status,
                                   !.records_processed = recordsProcessed,
                                   !.error_message = errorMessage]]

\* step 8: await updateSyncLog(logId, 'completed', totalRecords)
NightlyComplete(n) ==
  /\ nightly[n].pc = "complete"
  /\ sync_log' = UpdateSyncLog(sync_log, nightly[n].logId, "completed",
                               nightly[n].totalRecords, "null")
  /\ nightly' = [nightly EXCEPT ![n] = NightlyIdle]
  /\ UNCHANGED <<salesSide, vendors, triggerResponse, statuses,
                 clock, tables, inventory_cache, upstream, listing, sync,
                 dataResponse, lastWrite>>

\* that update throws
NightlyCompleteError(n) ==
  /\ nightly[n].pc = "complete"
  /\ nightly' = [nightly EXCEPT ![n] = Throw(nightly[n], "sync_log update")]
  /\ UNCHANGED <<salesSide, vendors, triggerResponse, statuses,
                 sync_log, clock, tables, inventory_cache, upstream, listing, sync,
                 dataResponse, lastWrite>>

\* catch (error) { await updateSyncLog(logId, 'failed', totalRecords,
\* error.message); throw error }
NightlyFailed(n) ==
  /\ nightly[n].pc = "catch"
  /\ sync_log' = UpdateSyncLog(sync_log, nightly[n].logId, "failed",
                               nightly[n].totalRecords, nightly[n].error)
  /\ nightly' = [nightly EXCEPT ![n] = NightlyIdle]
  /\ UNCHANGED <<salesSide, vendors, triggerResponse, statuses,
                 clock, tables, inventory_cache, upstream, listing, sync,
                 dataResponse, lastWrite>>

\* the update of the catch block throws too: the promise rejects and
\* runNightlySync().catch logs it
NightlyFailedError(n) ==
  /\ nightly[n].pc = "catch"
  /\ nightly' = [nightly EXCEPT ![n] = NightlyIdle]
  /\ UNCHANGED <<salesSide, vendors, triggerResponse, statuses,
                 sync_log, clock, tables, inventory_cache, upstream, listing, sync,
                 dataResponse, lastWrite>>

\* time passes
Tick ==
  /\ clock < MaxClock
  /\ clock' = clock + 1
  /\ UNCHANGED <<salesSide, vendors, triggerResponse, statuses,
                 bg, tables, inventory_cache, upstream, listing, sync,
                 dataResponse, lastWrite>>

\* ------------------------------------------------------------------------
\* The system: every handler, from an empty cache
\* ------------------------------------------------------------------------
InventoryEntry(item, qty) == [item_id |-> item, qty_on_hand |-> qty]
SaleRow(ticket, line, item, category, vendor, date, qty, price) ==
  SaleRecord(ticket, line, NoItem, item, date, qty, price, qty * price,
             [category |-> category, vendor |-> vendor, brand |-> vendor,
              name |-> "Blouse", size |-> ""])

SystemInventories ==
  {<<>>,
   <<InventoryEntry("i1", 2)>>,
   <<InventoryEntry("i1", 0), InventoryEntry("i2", 1), InventoryEntry(NoItem, 4)>>}
SystemSales ==
  {{}, {SaleRow("t1", "0", "i1", "Tops", "Acme", 0, 1, 5000)}}

\* ------------------------------------------------------------------------
\* processed_items: getItemStatus, updateItemStatus and the handlers that
\* update a status
\* ------------------------------------------------------------------------
ItemTypes == {"item", "grid"}
\* the ids of the grids and of the standalone items upstream
IdsOf(type) == IF type = "grid" THEN {"g1"} ELSE {"i1"}
StatusKeys == {<<t, i>> : t \in ItemTypes, i \in {"g1", "i1"}}
UsedKeys == {k \in StatusKeys : k[2] \in IdsOf(k[1])}
\* req.body.status: absent, one of the statuses, or any other string (the
\* handlers destructure it from the body and pass it on as it is)
BodyStatuses == {"", "new", "archived"}
\* req.body.receiptId and req.params.id of the receipt skip, 'REC-' removed
NoReceipt == "null"
BodyReceipts == {NoReceipt, "r1"}

StatusRow(type, id, status, receiptId) ==
  [item_type |-> type, heartland_id |-> id, status |-> status,
   receipt_id |-> receiptId]
RowsOfKey(rows, type, id) ==
  {r \in rows : r.item_type = type /\ r.heartland_id = id}

\* the INSERT without its ON CONFLICT clause and without the unique key
InsertStatus(rows, row) == rows \cup {row}

\* INSERT INTO processed_items ... ON CONFLICT (item_type, heartland_id)
\* DO UPDATE SET status, receipt_id (and the timestamps, processed_by)
UpsertStatus(rows, row) ==
  (rows \ RowsOfKey(rows, row.item_type, row.heartland_id)) \cup {row}

\* SELECT status FROM processed_items WHERE item_type = $1 AND
\* heartland_id = $2; result.rows[0]?.status || 'new'
SelectStatus(rows, type, id) ==
  IF RowsOfKey(rows, type, id) = {} THEN "new"
  ELSE LET row == CHOOSE r \in RowsOfKey(rows, type, id) : TRUE
       IN IF row.status = "" THEN "new" ELSE row.status

\* history: what the table held for the key when the SELECT ran
HeldStatuses(rows, type, id) == {r.status : r \in RowsOfKey(rows, type, id)}

NoStatus ==
  [op |-> "none", item_type |-> "none", heartland_id |-> "none",
   status |-> "none", failed |-> FALSE, held |-> {}]
StatusAnswer(op, type, id, status, failed, held) ==
  [op |-> op, item_type |-> type, heartland_id |-> id, status |-> status,
   failed |-> failed, held |-> held]
SkipIdle == [pc |-> "idle", receiptId |-> NoReceipt, pending |-> <<>>]
NeverStored == [status |-> "none", writes |-> 0]
MaxWrites == 2
Stored(last, type, id, status) ==
  [last EXCEPT ![<<type, id>>] =
     [status |-> status, writes |-> IF @.writes < MaxWrites THEN @.writes + 1
                                    ELSE MaxWrites]]

\* ------------------------------------------------------------------------
\* fetchAllPages(endpoint, maxPages = 50)
\* ------------------------------------------------------------------------
DefaultMaxPages == 50
\* requests and sizes are history: the pages requested and the number of
\* results of each page answered; returned is the value handed to the caller
NoResult == <<"none">>
FetchIdle ==
  [pc |-> "idle", maxPages |-> DefaultMaxPages, page |-> 1, hasMore |-> TRUE,
   allResults |-> <<>>, requests |-> <<>>, sizes |-> <<>>, returned |-> NoResult]
\* the results of a page: the k-th result of page p is <<p, k>>
PageResults(page, size) == [k \in 1..size |-> <<page, k>>]

\* the loop without its bound on the pages
FetchWhileMore(call) == call.hasMore
\* while (hasMore && page <= maxPages)
FetchAllRuns(call) == call.hasMore /\ call.page <= call.maxPages

\* the call: allResults = [], page = 1, hasMore = true
FetchAllBegin ==
  /\ fetchAll.pc = "idle"
  /\ fetchAll' = [FetchIdle EXCEPT !.pc = "loop"]
  /\ UNCHANGED <<unlisted, receipt_cache, receiptsResponse>>

\* one pass whose request is answered, with any number of results up to
\* per_page: if (data.results && data.results.length > 0) { push; hasMore =
\* length === 100; page++ } else { hasMore = false }
FetchAllRequest ==
  /\ fetchAll.pc = "loop" /\ FetchAllRuns(fetchAll)
  /\ \E size \in 0..PerPage :
       fetchAll' =
         [fetchAll EXCEPT
            !.allResults = IF size > 0 THEN @ \o PageResults(fetchAll.page, size)
                           ELSE @,
            !.hasMore = IF size > 0 THEN size = PerPage ELSE FALSE,
            !.page = IF size > 0 THEN @ + 1 ELSE @,
            !.requests = Append(@, fetchAll.page),
            !.sizes = Append(@, size)]
  /\ UNCHANGED <<unlisted, receipt_cache, receiptsResponse>>

\* heartlandRequest throws: nothing catches it in fetchAllPages
FetchAllThrow ==
  /\ fetchAll.pc = "loop" /\ FetchAllRuns(fetchAll)
  /\ fetchAll' = [fetchAll EXCEPT !.pc = "thrown", !.allResults = <<>>,
                                  !.requests = Append(@, fetchAll.page)]
  /\ UNCHANGED <<unlisted, receipt_cache, receiptsResponse>>

\* return allResults
FetchAllReturn ==
  /\ fetchAll.pc = "loop" /\ ~FetchAllRuns(fetchAll)
  /\ fetchAll' = [fetchAll EXCEPT !.pc = "returned",
                                  !.returned = fetchAll.allResults]
  /\ UNCHANGED <<unlisted, receipt_cache, receiptsResponse>>

\* the caller goes on (or handles the error); the next call may come
FetchAllOver ==
  /\ fetchAll.pc \in {"returned", "thrown"}
  /\ fetchAll' = FetchIdle
  /\ UNCHANGED <<unlisted, receipt_cache, receiptsResponse>>

PagesNext ==
  \/ FetchAllBegin \/ FetchAllRequest \/ FetchAllThrow \/ FetchAllReturn
  \/ FetchAllOver

\* ------------------------------------------------------------------------
\* GET /api/receipts
\* ------------------------------------------------------------------------
CacheRow(id, date, gridCount) ==
  [heartland_id |-> id, receipt_date |-> date, grid_count |-> gridCount]
\* SELECT ... FROM receipt_cache WHERE receipt_date >= NOW() - INTERVAL
\* '30 days'
CachedResult(cache, dbNow) ==
  {r \in cache : r.receipt_date >= dbNow - Window30 * DayLen}
\* SELECT receipt_id, status, COUNT(*) ... WHERE receipt_id = ANY($1) GROUP BY
\* receipt_id, status: the count of one group (0 when there is no such row)
StatusCount(rows, receiptId, status) ==
  Cardinality({p \in rows : p.receipt_id = receiptId /\ p.status = status})
\* statusMap[receipt_id], undefined when the receipt has no row at all
HasStats(rows, receiptId) == \E p \in rows : p.receipt_id = receiptId
\* the receiptStatus without its 'skipped' branch
ReceiptStatusNoSkipped(hasStats, completed, skipped, gridCount) ==
  LET done == completed + skipped
  IN IF hasStats /\ done > 0
     THEN IF done >= gridCount THEN "completed" ELSE "in_progress"
     ELSE "new"
\* the receiptStatus of a cached receipt; stats is statusMap[r.heartland_id]
ReceiptStatus(hasStats, completed, skipped, gridCount) ==
  LET done == completed + skipped
  IN IF hasStats /\ done > 0
     THEN IF done >= gridCount
          THEN IF skipped >= gridCount /\ completed = 0 THEN "skipped"
               ELSE "completed"
          ELSE "in_progress"
     ELSE "new"
\* an entry of the response; completed and skipped are history: the counts
\* the table held when the handler ran
ReceiptEntry(id, gridCount, status, cached, completed, skipped) ==
  [heartlandId |-> id, gridCount |-> gridCount, status |-> status,
   cached |-> cached, completed |-> completed, skipped |-> skipped]
\* receipts = cachedResult.rows.map(...): gridCount = r.grid_count || 1
CachedEntries(cache, rows, dbNow, answered) ==
  {LET gridCount == IF r.grid_count = 0 THEN 1 ELSE r.grid_count
       completed == StatusCount(rows, r.heartland_id, "completed")
       skipped == StatusCount(rows, r.heartland_id, "skipped")
   IN ReceiptEntry(r.heartland_id, gridCount,
                   IF answered
                   THEN ReceiptStatus(HasStats(rows, r.heartland_id),
                                      completed, skipped, gridCount)
                   ELSE "new",
                   TRUE, completed, skipped) :
     r \in CachedResult(cache, dbNow)}
\* the receipts of today that upstream lists and the cache does not hold
\* yet: unshifted with status 'new' and gridCount = gridIds.size || 1
TodayReceipts == {"r2"}
NewEntries(cache, today, gridCount) ==
  {ReceiptEntry(id, gridCount, "new", FALSE, 0, 0) :
     id \in {t \in today : \A r \in cache : r.heartland_id # t}}
NoReceipts == [code |-> 0, failed |-> FALSE, receipts |-> {}]

\* the handler with both queries answered; the check for today's receipts
\* finds any of them, or throws (caught: none is added)
GetReceipts ==
  /\ \E today \in SUBSET TodayReceipts, gridCount \in 1..2 :
       receiptsResponse' =
         [code |-> 200, failed |-> FALSE,
          receipts |-> CachedEntries(receipt_cache, processed_items, clock, TRUE)
                         \cup NewEntries(CachedResult(receipt_cache, clock),
                                         today, gridCount)]
  /\ UNCHANGED <<unlisted, receipt_cache, fetchAll>>

\* the query over processed_items throws: catch (e) { console.error }, and
\* statusMap stays empty
GetReceiptsStatusError ==
  /\ CachedResult(receipt_cache, clock) # {}
  /\ receiptsResponse' =
       [code |-> 200, failed |-> TRUE,
        receipts |-> CachedEntries(receipt_cache, processed_items, clock, FALSE)]
  /\ UNCHANGED <<unlisted, receipt_cache, fetchAll>>

\* the query over receipt_cache throws: res.status(500)
GetReceiptsError ==
  /\ receiptsResponse' = [code |-> 500, failed |-> TRUE, receipts |-> {}]
  /\ UNCHANGED <<unlisted, receipt_cache, fetchAll>>

ReceiptsListNext == GetReceipts \/ GetReceiptsStatusError \/ GetReceiptsError

QuietListing ==
  /\ receipt_cache = {}
  /\ receiptsResponse = NoReceipts
  /\ fetchAll = FetchIdle

QuietStatuses ==
  /\ processed_items = {}
  /\ statusResponse = NoStatus
  /\ receiptSkip = SkipIdle
  /\ lastStatus = [k \in UsedKeys |-> NeverStored]
  /\ QuietListing

\* everything but the statuses
others == <<clock, tables, inventory_cache, upstream, listing, sync, bg, dataResponse,
            lastWrite, salesSide, vendors, triggerResponse>>

\* updateItemStatus(itemType, heartlandId, status, receiptId): the upsert
UpdateItemStatus(type, id, status, receiptId) ==
  /\ processed_items' = UpsertStatus(processed_items,
                                     StatusRow(type, id, status, receiptId))
  /\ lastStatus' = Stored(lastStatus, type, id, status)

\* PUT /api/items/:id and PUT /api/grids/:id: newStatus = status ||
\* 'completed'; updateItemStatus; res.json({ success: true, status })
PutStatus ==
  \E k \in UsedKeys, status \in BodyStatuses, receiptId \in BodyReceipts :
    LET newStatus == IF status = "" THEN "completed" ELSE status
    IN /\ UpdateItemStatus(k[1], k[2], newStatus, receiptId)
       /\ statusResponse' = StatusAnswer("put", k[1], k[2], newStatus, FALSE, {})
       /\ UNCHANGED <<receiptSkip, others>>

\* the upsert throws: updateItemStatus logs it and returns false, and the
\* handler answers as before
PutStatusError ==
  \E k \in UsedKeys, status \in BodyStatuses :
    LET newStatus == IF status = "" THEN "completed" ELSE status
    IN /\ statusResponse' = StatusAnswer("put", k[1], k[2], newStatus, TRUE, {})
       /\ UNCHANGED <<processed_items, lastStatus, receiptSkip, others>>

\* POST /api/items/:id/skip and POST /api/grids/:id/skip
SkipStatus ==
  \E k \in UsedKeys :
    /\ UpdateItemStatus(k[1], k[2], "skipped", NoReceipt)
    /\ statusResponse' = StatusAnswer("skip", k[1], k[2], "skipped", FALSE, {})
    /\ UNCHANGED <<receiptSkip, others>>

SkipStatusError ==
  \E k \in UsedKeys :
    /\ statusResponse' = StatusAnswer("skip", k[1], k[2], "skipped", TRUE, {})
    /\ UNCHANGED <<processed_items, lastStatus, receiptSkip, others>>

\* POST /api/receipts/:id/skip up to its first write: the lines and the items
\* are fetched (an item whose request throws is left out); gridIds are
\* written first, then itemIds in the order the requests were answered
ReceiptSkipBegin ==
  /\ receiptSkip.pc = "idle"
  /\ \E grids \in SUBSET {k \in UsedKeys : k[1] = "grid"},
        items \in SUBSET {k \in UsedKeys : k[1] = "item"} :
       \E g \in OrdersOf(grids), i \in OrdersOf(items) :
         receiptSkip' = [pc |-> "write", receiptId |-> "r1", pending |-> g \o i]
  /\ UNCHANGED <<processed_items, statusResponse, lastStatus, others>>

\* INSERT INTO processed_items (...) VALUES (type, $1, $2, 'skipped', ...)
\* ON CONFLICT (item_type, heartland_id) DO UPDATE SET status = 'skipped',
\* receipt_id = $2, updated_at
ReceiptSkipWrite ==
  /\ receiptSkip.pc = "write" /\ receiptSkip.pending # <<>>
  /\ LET k == Head(receiptSkip.pending)
     IN UpdateItemStatus(k[1], k[2], "skipped", receiptSkip.receiptId)
  /\ receiptSkip' = [receiptSkip EXCEPT !.pending = Tail(receiptSkip.pending)]
  /\ UNCHANGED <<statusResponse, others>>

\* one of the writes throws: 500, the rest is not written
ReceiptSkipError ==
  /\ receiptSkip.pc = "write"
  /\ receiptSkip' = SkipIdle
  /\ statusResponse' = StatusAnswer("receiptSkip", "none", "none", "error", TRUE, {})
  /\ UNCHANGED <<processed_items, lastStatus, others>>

\* res.json({ success: true, message })
ReceiptSkipRespond ==
  /\ receiptSkip.pc = "write" /\ receiptSkip.pending = <<>>
  /\ receiptSkip' = SkipIdle
  /\ statusResponse' = StatusAnswer("receiptSkip", "none", "none", "skipped", FALSE, {})
  /\ UNCHANGED <<processed_items, lastStatus, others>>

\* getItemStatus(itemType, heartlandId)
GetItemStatus ==
  \E k \in UsedKeys :
    /\ statusResponse' =
         StatusAnswer("get", k[1], k[2], SelectStatus(processed_items, k[1], k[2]),
                      FALSE, HeldStatuses(processed_items, k[1], k[2]))
    /\ UNCHANGED <<processed_items, receiptSkip, lastStatus, others>>

\* the SELECT throws: catch (error) { return 'new' }
GetItemStatusError ==
  \E k \in UsedKeys :
    /\ statusResponse' =
         StatusAnswer("get", k[1], k[2], "new", TRUE,
                      HeldStatuses(processed_items, k[1], k[2]))
    /\ UNCHANGED <<processed_items, receiptSkip, lastStatus, others>>

StatusNext ==
  \/ PutStatus \/ PutStatusError \/ SkipStatus \/ SkipStatusError
  \/ ReceiptSkipBegin \/ ReceiptSkipWrite \/ ReceiptSkipError
  \/ ReceiptSkipRespond \/ GetItemStatus \/ GetItemStatusError

\* the sales side, the vendor names and the processing statuses at rest
QuietInit ==
  /\ customers = {}
  /\ sales_cache = {}
  /\ vendorCache = {}
  /\ upstreamSales = <<>>
  /\ upstreamCustomers = <<>>
  /\ upstreamVendor = "Acme"
  /\ triggerResponse = NoResponse
  /\ QuietStatuses

\* step 7 of runNightlySync and the end of the run
NightlyEngineNext ==
  \E n \in NightlySlots :
    \/ NightlyCategoryVelocity(n) \/ NightlyVendorVelocity(n)
    \/ NightlyReceiveData(n) \/ NightlySoldData(n)
    \/ NightlyFetchPage(n) \/ NightlyFetchError(n)
    \/ NightlySave(n) \/ NightlyInvError(n)
    \/ NightlyComplete(n) \/ NightlyCompleteError(n)
    \/ NightlyFailed(n) \/ NightlyFailedError(n)

EngineNext ==
  \/ SyncBegin \/ SyncCategoryVelocity \/ SyncVendorVelocity
  \/ SyncReceiveData \/ SyncSoldData \/ SyncFetchPage \/ SyncFetchError
  \/ SyncSave \/ SyncQueryError \/ SyncRespond
  \/ NightlyEngineNext

\* steps 1 to 3 of runNightlySync
SalesNext ==
  \E n \in NightlySlots :
    \/ NightlyFetchSales(n) \/ NightlyFetchSalesError(n)
    \/ NightlyFetchTickets(n) \/ NightlyFetchTicketsError(n)
    \/ NightlyFetchDetail(n) \/ NightlyFetchDetailError(n)
    \/ NightlyDetailsDone(n)
    \/ NightlyUpsertSale(n) \/ NightlyUpsertSaleError(n)
    \/ NightlySalesDone(n)

\* getVendorName past its cache, for step 3 and for step 6
VendorNext ==
  \E n \in NightlySlots : NightlyFetchVendor(n) \/ NightlyFetchVendorError(n)

\* steps 4 and 5
CustomersNext ==
  \E n \in NightlySlots :
    \/ NightlyFetchCustomers(n) \/ NightlyFetchCustomersError(n)
    \/ NightlyCustomerStats(n) \/ NightlyUpsertCustomer(n)
    \/ NightlyCustomerError(n) \/ NightlyUpsertCustomerError(n)
    \/ NightlyCustomersDone(n)
    \/ NightlyAggregate(n) \/ NightlyAggregateError(n)

\* step 6
ReceiptsNext ==
  \E n \in NightlySlots :
    \/ NightlyFetchReceipts(n) \/ NightlyFetchReceiptsError(n)
    \/ NightlyFetchLines(n) \/ NightlyFetchLinesError(n)
    \/ NightlyFetchItem(n) \/ NightlyFetchItemError(n)
    \/ NightlyUpsertReceipt(n) \/ NightlyUpsertReceiptError(n)
    \/ NightlyReceiptsDone(n)

TriggerNext ==
  \/ NightlyUnauthorized
  \/ \E n \in NightlySlots :
       NightlyBegin(n) \/ NightlyCreateLog(n) \/ NightlyCreateLogError(n)

IngestNext == TriggerNext \/ SalesNext \/ VendorNext \/ CustomersNext \/ ReceiptsNext

Init ==
  /\ clock = 0
  /\ item_receipts = {}
  /\ sales_transactions \in SystemSales
  /\ inventory_cache = {}
  /\ upstreamInventory \in SystemInventories
  /\ upstreamReceipts \in {{}, {"r1"}}
  /\ sync = EngineIdle
  /\ sync_log = <<>>
  /\ nightly = [n \in NightlySlots |-> NightlyIdle]
  /\ dataResponse = NoResponse
  /\ lastWrite = NoWrite
  /\ QuietInit

Next ==
  \/ EngineNext \/ IngestNext \/ StatusNext \/ GetData \/ GetDataError \/ Tick
  \/ PagesNext \/ ReceiptsListNext

Spec == Init /\ [][Next]_vars

\* ------------------------------------------------------------------------
\* The engine over given tables: both copies of the engine run (the nightly
\* run has reached step 7) over item_receipts rows whose ages lie on the
\* bucket boundaries
\* ------------------------------------------------------------------------
ReceiptRowOf(item, receipt, date, qty, cost) ==
  [item_id |-> item, receipt_id |-> receipt, received_date |-> date,
   qty_received |-> qty, unit_cost |-> cost,
   item_name |-> "Blouse", category |-> "Tops", vendor |-> "Acme"]

AtStep7 == [NightlyIdle EXCEPT !.pc = "category", !.logId = 1]
RunningLog ==
  <<[status |-> "running", records_processed |-> 0, started_at |-> 0,
     error_message |-> "null"]>>

EngineInit(now0) ==
  /\ clock = now0
  /\ inventory_cache = {}
  /\ upstreamReceipts = {}
  /\ sync = EngineIdle
  /\ sync_log = RunningLog
  /\ nightly = OnlyFirst(AtStep7)
  /\ dataResponse = NoResponse
  /\ lastWrite = NoWrite
  /\ QuietInit

AgingNow == (EmergencyDays + 1) * DayLen
BoundaryDays == {WatchDays - 1, WatchDays, SlowDays - 1, SlowDays,
                 DeadDays - 1, DeadDays, EmergencyDays - 1, EmergencyDays}
\* a timestamp d days and o ticks before AgingNow
Ago(d, o) == AgingNow - d * DayLen - o

\* the other rows and the quantities on hand of i1 and i2 that go with the
\* receipt of i1 on a boundary: a second receipt of i1 (today, or on the
\* oldest boundary), a receipt of i2 (44 or 45 days old, or one unit at 40
\* cents today), stock or none
AgingScenarios ==
  {[rows |-> {}, q1 |-> 2, q2 |-> 3],
   [rows |-> {}, q1 |-> 0, q2 |-> 3],
   [rows |-> {ReceiptRowOf("i1", "r2", Ago(0, 0), 1, 2000)}, q1 |-> 2, q2 |-> -1],
   [rows |-> {ReceiptRowOf("i1", "r2", Ago(EmergencyDays, 0), 1, 2000),
              ReceiptRowOf("i2", "r1", Ago(WatchDays - 1, 0), 3, 2000)},
    q1 |-> 2, q2 |-> 3],
   [rows |-> {ReceiptRowOf("i2", "r1", Ago(WatchDays, 0), 3, 2000)},
    q1 |-> 2, q2 |-> 3],
   [rows |-> {ReceiptRowOf("i2", "r1", Ago(WatchDays, 0), 3, 2000)},
    q1 |-> 0, q2 |-> -1],
   [rows |-> {ReceiptRowOf("i2", "r1", Ago(0, 0), 1, 40)}, q1 |-> 2, q2 |-> 3]}

\* the tables of the priced example: i1 received 100 days ago (10 at $20),
\* sold 50 days ago (3 at $50), 7 on hand; i2 received 120 days ago without
\* a cost and sold at $30, 3 on hand; i3 received 60 days ago at $10.01 and
\* never sold, 1 on hand; i4 received 10 days ago, 2 on hand
PricedReceipts ==
  {ReceiptRowOf("i1", "r1", Ago(100, 0), 10, 2000),
   ReceiptRowOf("i2", "r1", Ago(EmergencyDays, 0), 3, 0),
   ReceiptRowOf("i3", "r2", Ago(SlowDays, 0), 1, 1001),
   ReceiptRowOf("i4", "r2", Ago(10, 0), 2, 1500)}
PricedSales ==
  {SaleRow("t1", "0", "i1", "Tops", "Acme", Ago(50, 0), 3, 5000),
   SaleRow("t2", "0", "i2", "Tops", "Acme", Ago(1, 0), 1, 3000)}
PricedInventory ==
  <<InventoryEntry("i1", 7), InventoryEntry("i2", 3), InventoryEntry("i3", 1),
    InventoryEntry("i4", 2)>>

InitAging ==
  /\ EngineInit(AgingNow)
  /\ \/ /\ \E d1 \in BoundaryDays, o1 \in {0, DayLen - 1}, sc \in AgingScenarios :
            /\ item_receipts = {ReceiptRowOf("i1", "r1", Ago(d1, o1), 5, 2000)}
                                 \cup sc.rows
            /\ upstreamInventory =
                 <<InventoryEntry("i1", sc.q1), InventoryEntry(NoItem, 1),
                   InventoryEntry("i2", sc.q2), InventoryEntry("i3", 1)>>
        /\ sales_transactions =
             {SaleRow("t1", "0", "i1", "Tops", "Acme", Ago(1, 0), 1, 5000)}
     \/ /\ item_receipts = PricedReceipts
        /\ upstreamInventory = PricedInventory
        /\ sales_transactions = PricedSales

SpecAging == InitAging /\ [][EngineNext]_vars

\* ------------------------------------------------------------------------
\* The snapshot and its readers: repeated runs of POST /api/inventory/sync,
\* a nightly run that has reached step 7, time passing, GET
\* /api/inventory/data
\* ------------------------------------------------------------------------
InitCache ==
  /\ EngineInit(0)
  /\ item_receipts = {ReceiptRowOf("i1", "r1", 0, 5, 2000),
                      ReceiptRowOf("i2", "r1", 0, 1, 2000)}
  /\ sales_transactions = {}
  /\ upstreamInventory = <<InventoryEntry("i1", 2), InventoryEntry(NoItem, 1),
                           InventoryEntry("i2", 1)>>

CacheNext == EngineNext \/ GetData \/ GetDataError \/ Tick

SpecCache == InitCache /\ [][CacheNext]_vars

\* ------------------------------------------------------------------------
\* The receiving ingestion: a nightly run over the receipts r1 and r2, after
\* an earlier run stored the line of i1 on r1 without its metadata
\* ------------------------------------------------------------------------
EarlierIngestion ==
  {ReceiptRow(UpstreamReceipt("r1", 0), UpstreamLine("i1", 1, 100), DefaultDetails)}

\* the run has reached step 6
AtStep6 == [NightlyIdle EXCEPT !.pc = "receipts", !.logId = 1]

InitIngest ==
  /\ clock = 1
  /\ item_receipts = EarlierIngestion
  /\ sales_transactions = {}
  /\ inventory_cache = {}
  /\ upstreamInventory = <<InventoryEntry("i1", 2)>>
  /\ upstreamReceipts = ReceiptIds
  /\ sync = EngineIdle
  /\ sync_log = RunningLog
  /\ nightly = OnlyFirst(AtStep6)
  /\ dataResponse = NoResponse
  /\ lastWrite = NoWrite
  /\ QuietInit

SpecIngest == InitIngest /\ [][ReceiptsNext \/ VendorNext \/ NightlyEngineNext]_vars

\* ------------------------------------------------------------------------
\* The velocity rankings: both copies of the engine run over sales tables
\* drawn from per-item patterns around the sample-size floor
\* ------------------------------------------------------------------------
VelocityNow == (VelocityWindowDays + 1) * DayLen
\* the sale rows of one item: two rows span apart, the later one at
\* VelocityNow - recent
TwoSales(item, category, vendor, span, recent) ==
  {SaleRow(item, "0", item, category, vendor, VelocityNow - recent - span, 1, 5000),
   SaleRow(item, "1", item, category, vendor, VelocityNow - recent, 1, 5000)}
OneSale(item, category, vendor) ==
  {SaleRow(item, "0", item, category, vendor, VelocityNow - 1, 1, 5000)}

\* an item of Tops/Acme: one sale row, two rows at one timestamp, two rows a
\* tick apart, two rows 10 days apart
TopsPatterns(item) ==
  {OneSale(item, "Tops", "Acme"),
   TwoSales(item, "Tops", "Acme", 0, 1),
   TwoSales(item, "Tops", "Acme", 1, 1),
   TwoSales(item, "Tops", "Acme", 10 * DayLen, 1)}
\* the fourth item: absent, a single sale of Tops, a sale of Tops on each
\* side of the 180-day window, or two sales of Skirts 10 days apart
FourthPatterns ==
  {{},
   OneSale("i4", "Tops", "Acme"),
   TwoSales("i4", "Tops", "Acme", VelocityWindowDays * DayLen, 0),
   TwoSales("i4", "Skirts", "Acme", 10 * DayLen, 1)}

\* Tops with 5 items at 10 days each and Skirts with 2 items at 5 days
TopsAndSkirts ==
  UNION {TwoSales(i, "Tops", "Zeta", 10 * DayLen, 1)
           : i \in {"i1", "i2", "i3", "i4", "i5"}}
    \cup UNION {TwoSales(i, "Skirts", "Zeta", 5 * DayLen, 1) : i \in {"i6", "i7"}}

VelocitySales ==
  {s1 \cup s2 \cup s3 \cup s4 :
     s1 \in TopsPatterns("i1"), s2 \in TopsPatterns("i2"),
     s3 \in TopsPatterns("i3"), s4 \in FourthPatterns}
    \cup {TopsAndSkirts}

InitVelocity ==
  /\ EngineInit(VelocityNow)
  /\ item_receipts = {}
  /\ upstreamInventory = <<>>
  /\ sales_transactions \in VelocitySales

SpecVelocity == InitVelocity /\ [][EngineNext]_vars

\* ------------------------------------------------------------------------
\* Properties
\* ------------------------------------------------------------------------
\* the receipts of an item, and the age in days of its latest receipt at now
ReceiptsOf(item) == {r \in item_receipts : r.item_id = item}
LatestAge(item, now) ==
  DaysSince(now, Max({r.received_date : r \in ReceiptsOf(item)}))

\* the entries of the fetched inventory that are considered for aging
AgedEntries(w) ==
  {k \in 1..Len(w.allInventory) :
     /\ w.allInventory[k].item_id # NoItem
     /\ w.allInventory[k].qty_on_hand > 0
     /\ ReceiptsOf(w.allInventory[k].item_id) # {}}

ClaimBucket(d) ==
  CASE d >= 120 -> "emergency"
    [] d >= 90 /\ d <= 119 -> "dead"
    [] d >= 60 /\ d <= 89 -> "slow"
    [] d >= 45 /\ d <= 59 -> "watch"
    [] d < 45 -> "fresh"

\* C1: every listed item carries the bucket the thresholds 120 / 90 / 60 / 45
\* assign to its daysSinceReceived, and every considered entry is counted in
\* the counter of that bucket and in no other.
C1_BucketBoundaries ==
  \A row \in inventory_cache :
    LET ds == row.data.deadStock
        w == lastWrite
        count(b) == Cardinality({k \in AgedEntries(w) :
                       ClaimBucket(LatestAge(w.allInventory[k].item_id, w.now)) = b})
    IN /\ \A i \in 1..Len(ds.items) :
            ds.items[i].bucket = ClaimBucket(ds.items[i].daysSinceReceived)
       /\ ds.summary.itemsFresh = count("fresh")
       /\ ds.summary.itemsWatch = count("watch")
       /\ ds.summary.items60Days = count("slow")
       /\ ds.summary.items90Days = count("dead")
       /\ ds.summary.items120Days = count("emergency")
       /\ ds.summary.itemsFresh + ds.summary.itemsWatch + ds.summary.items60Days
            + ds.summary.items90Days + ds.summary.items120Days
            = Cardinality(AgedEntries(w))

\* a snapshot listing an item 119 days old as dead next to one 45 days old as
\* watch
C1_Witness ==
  \E row \in inventory_cache :
    LET items == row.data.deadStock.items
    IN /\ \E i \in 1..Len(items) :
            items[i].daysSinceReceived = 119 /\ items[i].bucket = "dead"
       /\ \E i \in 1..Len(items) :
            items[i].daysSinceReceived = 45 /\ items[i].bucket = "watch"

C3_SoldOutExcluded ==
  \A row \in inventory_cache :
    LET ds == row.data.deadStock
        w == lastWrite
        onHand == {k \in 1..Len(w.allInventory) : w.allInventory[k].qty_on_hand > 0}
    IN /\ \A k \in 1..Len(w.allInventory) :
            w.allInventory[k].qty_on_hand <= 0 =>
              \A i \in 1..Len(ds.items) : ds.items[i].id # w.allInventory[k].item_id
       /\ \A i \in 1..Len(ds.items) : ds.items[i].qtyRemaining > 0
       /\ ds.summary.itemsFresh + ds.summary.totalItems
            <= Cardinality({k \in onHand : ReceiptsOf(w.allInventory[k].item_id) # {}})

\* a snapshot written from an inventory in which an item received 120 days
\* ago has no quantity on hand
C3_Witness ==
  \E row \in inventory_cache :
    \E k \in 1..Len(lastWrite.allInventory) :
      LET inv == lastWrite.allInventory[k]
      IN /\ inv.item_id # NoItem /\ inv.qty_on_hand <= 0
         /\ ReceiptsOf(inv.item_id) # {}
         /\ LatestAge(inv.item_id, lastWrite.now) >= 120

\* C7: received of window N is the value (quantity x unit cost, rounded to
\* whole dollars) of the receipts of the last N days, and of no older receipt.
C7_ReceivedInWindow ==
  \A row \in inventory_cache :
    \A N \in Windows :
      LET inWindow == {r \in item_receipts :
                         DaysSince(lastWrite.now, r.received_date) <= N}
      IN row.data.deadStock.storeMetrics[N].received
           = MathRound(Sum([r \in inWindow |-> r.qty_received * r.unit_cost],
                           inWindow), 100)

\* C8: a window whose reported received is 0 reports pctOnHand 0.
C8_ZeroReceivedZeroPct ==
  \A row \in inventory_cache :
    \A N \in Windows :
      LET m == row.data.deadStock.storeMetrics[N]
      IN m.received = 0 => m.pctOnHand = 0

\* C4: a step of a run whose inventory fetch has failed leaves
\* inventory_cache as it is.
C4_FetchFailureAborts ==
  [][/\ (sync.fetchFailed /\ sync' # sync) => inventory_cache' = inventory_cache
     /\ \A n \in NightlySlots :
          (nightly[n].fetchFailed /\ nightly'[n] # nightly[n])
            => inventory_cache' = inventory_cache]_vars

\* what GET /api/inventory/data answers after the write w
ExpectedResponse(w) ==
  IF w = NoWrite
  THEN [status |-> 200, error |-> "No data yet", syncedAt |-> "null"]
  ELSE [status |-> 200, data |-> w.data, syncedAt |-> w.synced_at]

RowsOfPair(rows, item, receipt) ==
  {r \in rows : r.item_id = item /\ r.receipt_id = receipt}

\* C6: item_receipts never holds two rows for one (item_id, receipt_id); the
\* upsert of a line leaves for its pair exactly the row of the values just
\* ingested, leaves the other rows alone, and adds no row when the pair was
\* already stored.
C6_IdempotentUpsert ==
  /\ [](\A r1 \in item_receipts, r2 \in item_receipts :
          (r1.item_id = r2.item_id /\ r1.receipt_id = r2.receipt_id) => r1 = r2)
  /\ [][\A n \in NightlySlots :
          (/\ nightly[n].pc = "upsert"
           /\ nightly'[n].receiptItemCount = nightly[n].receiptItemCount + 1)
          => LET receipt == Head(nightly[n].receipts)
                 line == Head(nightly[n].lines)
                 item == line.item_id
                 doc == receipt.id
             IN /\ RowsOfPair(item_receipts', item, doc) =
                     {[item_id |-> item, receipt_id |-> doc,
                       received_date |-> receipt.completed_at,
                       qty_received |-> line.qty, unit_cost |-> line.unit_cost,
                       item_name |-> nightly[n].details.name,
                       category |-> nightly[n].details.category,
                       vendor |-> nightly[n].details.vendor]}
                /\ item_receipts' \ RowsOfPair(item_receipts', item, doc) =
                     item_receipts \ RowsOfPair(item_receipts, item, doc)
                /\ RowsOfPair(item_receipts, item, doc) # {}
                     => Cardinality(item_receipts') = Cardinality(item_receipts)]_vars

\* the line of i1 on r1, stored by the earlier run, has been ingested again
\* with another date, quantity, cost and metadata, and is still the only row
\* of its pair
C6_Witness ==
  /\ Cardinality(RowsOfPair(item_receipts, "i1", "r1")) = 1
  /\ \E r \in RowsOfPair(item_receipts, "i1", "r1") :
       /\ r.received_date = 1 /\ r.qty_received = 2 /\ r.unit_cost = 250
       /\ r.item_name = "Blouse"
  /\ Cardinality(item_receipts) > 1

\* the rows of the table inside the 180-day window of a query at dbNow whose
\* category (or vendor) is name
WindowSales(field, name, dbNow) ==
  {r \in sales_transactions :
     /\ r[field] = name
     /\ r.transaction_date > dbNow - VelocityWindowDays * DayLen}
\* the qualifying items of a name: sold in the window at two different times
Qualifying(field, name, dbNow) ==
  {i \in {r.item_id : r \in WindowSales(field, name, dbNow)} :
     \E r1, r2 \in WindowSales(field, name, dbNow) :
       /\ r1.item_id = i /\ r2.item_id = i
       /\ r1.transaction_date # r2.transaction_date}
\* the items of a name whose sales in the window all share one timestamp
SingleTimestamp(field, name, dbNow) ==
  {r.item_id : r \in WindowSales(field, name, dbNow)} \ Qualifying(field, name, dbNow)
ListNames(list) == {list[k].name : k \in 1..Len(list)}
SalesNames(field) == {r[field] : r \in sales_transactions}
\* the runs that have computed both rankings (the tables are constant and
\* the clock stands still in the specifications of the rankings)
RankedRuns ==
  {r \in {sync} \cup {nightly[n] : n \in NightlySlots} :
     r.pc \in {"receive", "sold", "fetch"}}

\* C9: a category or vendor with exactly 2 qualifying items is in no
\* ranking and one with exactly 3 is in it; over Tops (5 items, 10 days)
\* and Skirts (2 items) byCategory is Tops alone with avgDaysToSell 10 and
\* itemsSold 5.
C9_SampleSizeFloor ==
  \A r \in RankedRuns :
    /\ \A c \in SalesNames("category") :
         /\ Cardinality(Qualifying("category", c, clock)) = 2
              => c \notin ListNames(r.categoryVelocity)
         /\ Cardinality(Qualifying("category", c, clock)) = 3
              => c \in ListNames(r.categoryVelocity)
    /\ \A v \in SalesNames("vendor") :
         /\ Cardinality(Qualifying("vendor", v, clock)) = 2
              => v \notin ListNames(r.vendorVelocity)
         /\ Cardinality(Qualifying("vendor", v, clock)) = 3
              => v \in ListNames(r.vendorVelocity)
    /\ sales_transactions = TopsAndSkirts
         => r.categoryVelocity =
              <<[name |-> "Tops", avgDaysToSell |-> 10, itemsSold |-> 5]>>

\* the span in ticks between the first and the last sale of an item of a name
SpanOf(field, name, item, dbNow) ==
  LET dates == {r.transaction_date :
                  r \in {q \in WindowSales(field, name, dbNow) : q.item_id = item}}
  IN Max(dates) - Min(dates)

\* an entry of a ranking counts and averages the qualifying items of its
\* name and nothing else (a mean on a half may round either way)
FromQualifyingOnly(list, field, dbNow) ==
  \A k \in 1..Len(list) :
    LET q == Qualifying(field, list[k].name, dbNow)
        total == Sum([i \in q |-> SpanOf(field, list[k].name, i, dbNow)], q)
    IN /\ list[k].itemsSold = Cardinality(q)
       /\ 2 * DayLen * Cardinality(q) * list[k].avgDaysToSell
            \in (2 * total - DayLen * Cardinality(q))
                  .. (2 * total + DayLen * Cardinality(q))

\* C10: an item whose sales in the window all share one timestamp changes
\* neither the itemsSold nor the avgDaysToSell of its category or vendor:
\* both are those of the qualifying items alone.
C10_SingleSaleContributesNothing ==
  \A r \in RankedRuns :
    /\ FromQualifyingOnly(r.categoryVelocity, "category", clock)
    /\ FromQualifyingOnly(r.vendorVelocity, "vendor", clock)

\* Tops is ranked over its three qualifying items while a fourth item of
\* Tops has a single sale in the window
C10_Witness ==
  \E r \in RankedRuns :
    /\ "Tops" \in ListNames(r.categoryVelocity)
    /\ Cardinality(Qualifying("category", "Tops", clock)) = 3
    /\ SingleTimestamp("category", "Tops", clock) # {}

\* C11: deadStock.items lists, oldest first, exactly the entries of the
\* fetched inventory with a quantity on hand, receive data and
\* daysSinceReceived >= 45; the entries fresher than 45 days are counted in
\* itemsFresh and listed nowhere.
C11_ListedFrom45Days ==
  \A row \in inventory_cache :
    LET ds == row.data.deadStock
        w == lastWrite
        age(k) == LatestAge(w.allInventory[k].item_id, w.now)
        old == {k \in AgedEntries(w) : age(k) >= 45}
        fresh == {k \in AgedEntries(w) : age(k) < 45}
        listed(k) == {i \in 1..Len(ds.items) :
                        /\ ds.items[i].id = w.allInventory[k].item_id
                        /\ ds.items[i].qtyRemaining = w.allInventory[k].qty_on_hand
                        /\ ds.items[i].daysSinceReceived = age(k)}
    IN /\ Len(ds.items) = Cardinality(old)
       /\ \A k \in old : listed(k) # {}
       /\ \A k \in fresh : \A i \in 1..Len(ds.items) :
            ds.items[i].id # w.allInventory[k].item_id
       /\ \A i \in 1..Len(ds.items) : ds.items[i].daysSinceReceived >= 45
       /\ \A i, j \in 1..Len(ds.items) :
            i < j => ds.items[i].daysSinceReceived >= ds.items[j].daysSinceReceived
       /\ ds.summary.itemsFresh = Cardinality(fresh)

\* a snapshot that lists an item 120 days old ahead of one 100 days old
\* which precedes it in the fetched inventory, and counts an item 10 days
\* old without listing it
C11_Witness ==
  \E row \in inventory_cache :
    LET ds == row.data.deadStock
        inv == lastWrite.allInventory
    IN /\ Len(ds.items) = 3 /\ Len(inv) = 4
       /\ ds.items[1].id = inv[2].item_id /\ ds.items[2].id = inv[1].item_id
       /\ ds.items[1].daysSinceReceived = 120
       /\ ds.items[2].daysSinceReceived = 100
       /\ LatestAge(inv[4].item_id, lastWrite.now) = 10
       /\ ds.summary.itemsFresh = 1

\* the rows of sales_transactions of an item
SalesOf(item) == {r \in sales_transactions : r.item_id = item}
\* the claim's price and cost of an item, in tenths of a cent
MaxSalePrice(item) ==
  IF SalesOf(item) = {} THEN 0 ELSE Max({r.unit_price : r \in SalesOf(item)})
MaxReceiveCost(item) == Max({r.unit_cost : r \in ReceiptsOf(item)})
ClaimPrice(item) ==
  IF MaxSalePrice(item) > 0 THEN 10 * MaxSalePrice(item)
  ELSE 25 * MaxReceiveCost(item)
ClaimCost(item) ==
  IF MaxReceiveCost(item) > 0 THEN 10 * MaxReceiveCost(item)
  ELSE 4 * MaxSalePrice(item)

\* C12: the costValue and retailValue of a listed item are its quantity on
\* hand times its cost and its price, to the cent, the price being the
\* highest sale price or else cost x 2.5 and the cost the highest receive
\* cost or else price x 0.4; the item received 100 days ago at $20, sold at
\* $50, with 7 on hand is dead, costValue 140, retailValue 350, '40-50% off',
\* and counted in items90Days.
C12_ItemValues ==
  \A row \in inventory_cache :
    LET ds == row.data.deadStock
    IN /\ \A i \in 1..Len(ds.items) :
            LET it == ds.items[i]
            IN /\ it.costValue = MathRound(it.qtyRemaining * ClaimCost(it.id), 10)
               /\ it.retailValue = MathRound(it.qtyRemaining * ClaimPrice(it.id), 10)
       /\ (item_receipts = PricedReceipts /\ lastWrite.allInventory = PricedInventory)
            => /\ \E i \in 1..Len(ds.items) :
                    /\ ds.items[i].id = "i1"
                    /\ ds.items[i].bucket = "dead"
                    /\ ds.items[i].costValue = 14000
                    /\ ds.items[i].retailValue = 35000
                    /\ ds.items[i].suggestedMarkdown = "40-50% off"
               /\ ds.summary.items90Days = 1

\* a snapshot listing the example item next to an item priced from its cost
\* and an item costed from its price
C12_Witness ==
  \E row \in inventory_cache :
    LET items == row.data.deadStock.items
    IN /\ \E i \in 1..Len(items) :
            items[i].id = "i1" /\ items[i].costValue = 14000
       /\ \E i \in 1..Len(items) :
            /\ items[i].id = "i2" /\ MaxReceiveCost("i2") = 0
            /\ items[i].costValue = 3600
       /\ \E i \in 1..Len(items) :
            /\ items[i].id = "i3" /\ SalesOf("i3") = {}
            /\ items[i].retailValue = 2503

\* ------------------------------------------------------------------------
\* One whole run of runNightlySync, from its first fetch, over tables that
\* an earlier run has filled with other values
\* ------------------------------------------------------------------------
EarlierSales ==
  {SaleRecord("t1", "l1", "c0", "i1", 0, 5, 100, 500,
              [category |-> "Skirts", vendor |-> "Zeta", brand |-> "Zeta",
               name |-> "Unknown Item", size |-> "S"])}
EarlierCustomers ==
  {CustomerRow(UpstreamCustomer("c1", "Old"), NoStats)}
\* line l1 of ticket t1 again with other numbers, a line of ticket t2
\* without line id and quantity, and a line without item
RunSales ==
  <<UpstreamSale("t1", "l1", "c1", "i1", 0, 1, 2, 5000),
    UpstreamSale("t2", NoItem, NoItem, "i2", 1, 1, 0, 3000),
    UpstreamSale("t2", "l3", "c1", NoItem, 1, 1, 1, 100)>>
RunCustomers == <<UpstreamCustomer("c1", "Ann"), UpstreamCustomer(NoItem, "Bob")>>

AtStep1 == [NightlyIdle EXCEPT !.pc = "sales", !.logId = 1]

InitRun ==
  /\ clock = 1
  /\ item_receipts = EarlierIngestion
  /\ sales_transactions = EarlierSales
  /\ customers = EarlierCustomers
  /\ sales_cache = {}
  /\ inventory_cache = {}
  /\ upstreamSales = RunSales
  /\ upstreamCustomers = RunCustomers
  /\ upstreamInventory = <<InventoryEntry("i1", 2)>>
  /\ upstreamReceipts = {"r1"}
  /\ upstreamVendor = "Acme"
  /\ vendorCache = {}
  /\ sync = EngineIdle
  /\ sync_log = RunningLog
  /\ nightly = OnlyFirst(AtStep1)
  /\ dataResponse = NoResponse
  /\ lastWrite = NoWrite
  /\ triggerResponse = NoResponse
  /\ QuietStatuses

RunNext == SalesNext \/ VendorNext \/ CustomersNext \/ ReceiptsNext \/ NightlyEngineNext

SpecRun == InitRun /\ [][RunNext]_vars

\* C13: once a bulk window fetch of a run has failed, no step of that run
\* publishes an analysis snapshot, and the update the run makes to its
\* sync_log row sets it to 'failed' with the message of that failure
C13_BulkFetchFailureFails ==
  [][\A n \in NightlySlots :
       (nightly[n].bulkFailed # "null" /\ nightly'[n] # nightly[n]) =>
         /\ inventory_cache' = inventory_cache
         /\ sales_cache' = sales_cache
         /\ sync_log' # sync_log =>
              /\ sync_log'[nightly[n].logId].status = "failed"
              /\ sync_log'[nightly[n].logId].error_message = nightly[n].bulkFailed]_vars

\* ------------------------------------------------------------------------
\* The triggers and the runs they start, over the same tables
\* ------------------------------------------------------------------------
InitTrigger ==
  /\ clock = 1
  /\ item_receipts = EarlierIngestion
  /\ sales_transactions = EarlierSales
  /\ customers = EarlierCustomers
  /\ sales_cache = {}
  /\ inventory_cache = {}
  /\ upstreamSales = RunSales
  /\ upstreamCustomers = RunCustomers
  /\ upstreamInventory = <<InventoryEntry("i1", 2)>>
  /\ upstreamReceipts = {"r1"}
  /\ upstreamVendor = "Acme"
  /\ vendorCache = {}
  /\ sync = EngineIdle
  /\ sync_log = <<>>
  /\ nightly = [n \in NightlySlots |-> NightlyIdle]
  /\ dataResponse = NoResponse
  /\ lastWrite = NoWrite
  /\ triggerResponse = NoResponse
  /\ QuietStatuses

SpecTrigger == InitTrigger /\ [][TriggerNext \/ RunNext]_vars

\* the rows of sync_log that no run in progress holds
Settled(log, runs) ==
  {k \in 1..Len(log) : \A n \in NightlySlots : runs[n].pc = "idle" \/ runs[n].logId # k}

\* C14: the step that answers 'running' to a trigger does no work of the run
\* (the run is only started); a run that has got past createSyncLog has one
\* row of its own, 'running' while it goes on; once the run is over (each of
\* its awaited calls has returned or thrown) its row is 'completed' or
\* 'failed'; and a row that has reached one of these never changes again
C14_RunEndsLogged ==
  /\ [][\A n \in NightlySlots :
          (nightly[n].pc = "idle" /\ nightly'[n].pc # "idle") =>
             /\ triggerResponse' = [status |-> 200, body |-> "running"]
             /\ nightly'[n].pc = "create"
             /\ UNCHANGED <<sync_log, tables, salesSide, inventory_cache>>]_vars
  /\ [](\A n \in NightlySlots :
          nightly[n].pc \notin {"idle", "create"} =>
             /\ nightly[n].logId \in 1..Len(sync_log)
             /\ sync_log[nightly[n].logId].status = "running"
             /\ \A m \in NightlySlots \ {n} :
                  nightly[m].pc \in {"idle", "create"}
                    \/ nightly[m].logId # nightly[n].logId)
  /\ [](\A k \in Settled(sync_log, nightly) :
          sync_log[k].status \in {"completed", "failed"})
  /\ [][\A k \in 1..Len(sync_log) :
          sync_log[k].status \in {"completed", "failed"} =>
             sync_log'[k] = sync_log[k]]_vars

\* ------------------------------------------------------------------------
\* Two runs at once over the same upstream data, every call succeeding
\* ------------------------------------------------------------------------
EarlierSettled ==
  {ReceiptRow(UpstreamReceipt("r3", 0), UpstreamLine("i1", 1, 100), DefaultDetails)}
TwoRunningLogs == RunningLog \o RunningLog

InitConcurrent ==
  /\ clock = 1
  /\ item_receipts = EarlierSettled
  /\ sales_transactions = EarlierSales
  /\ customers = EarlierCustomers
  /\ sales_cache = {}
  /\ inventory_cache = {}
  /\ upstreamSales = RunSales
  /\ upstreamCustomers = RunCustomers
  /\ upstreamInventory = <<InventoryEntry("i1", 2)>>
  /\ upstreamReceipts = {"r3"}
  /\ upstreamVendor = "Acme"
  /\ vendorCache = {}
  /\ sync = EngineIdle
  /\ sync_log = TwoRunningLogs
  /\ nightly = [n \in NightlySlots |->
                  [AtStep1 EXCEPT !.logId = IF n = "n1" THEN 1 ELSE 2]]
  /\ dataResponse = NoResponse
  /\ lastWrite = NoWrite
  /\ triggerResponse = NoResponse
  /\ QuietStatuses

\* the steps of a run whose calls all succeed
ConcurrentNext ==
  \E n \in NightlySlots :
    \/ NightlyFetchSales(n) \/ NightlyFetchTickets(n)
    \/ NightlyFetchDetail(n) \/ NightlyFetchVendor(n) \/ NightlyDetailsDone(n)
    \/ NightlyUpsertSale(n) \/ NightlySalesDone(n)
    \/ NightlyFetchCustomers(n) \/ NightlyCustomerStats(n)
    \/ NightlyUpsertCustomer(n) \/ NightlyCustomersDone(n)
    \/ NightlyAggregate(n)
    \/ NightlyFetchReceipts(n) \/ NightlyFetchLines(n) \/ NightlyFetchItem(n)
    \/ NightlyUpsertReceipt(n) \/ NightlyReceiptsDone(n)
    \/ NightlyCategoryVelocity(n) \/ NightlyVendorVelocity(n)
    \/ NightlyReceiveData(n) \/ NightlySoldData(n)
    \/ NightlyFetchPage(n) \/ NightlySave(n) \/ NightlyComplete(n)

SpecConcurrent == InitConcurrent /\ [][ConcurrentNext]_vars

\* what one run over the upstream data writes, from the data alone
VendorOf(item) ==
  IF UpstreamItem(item).primary_vendor_id = NoItem THEN "Unknown" ELSE upstreamVendor
WrittenSales ==
  {SaleRecord(x.transaction_id,
              IF x.transaction_line_id = NoItem THEN "0" ELSE x.transaction_line_id,
              x.customer_id, x.item_id, x.completed,
              IF x.net_qty_sold = 0 THEN 1 ELSE x.net_qty_sold,
              x.unit_price, x.net_sales,
              [category |-> UpstreamItem(x.item_id).category,
               vendor |-> VendorOf(x.item_id), brand |-> VendorOf(x.item_id),
               name |-> UpstreamItem(x.item_id).name,
               size |-> UpstreamItem(x.item_id).size]) :
     x \in {y \in SeqToSet(upstreamSales) : y.item_id # NoItem}}
SameSaleKey(r, w) ==
  /\ r.heartland_ticket_id = w.heartland_ticket_id
  /\ r.heartland_line_id = w.heartland_line_id
\* the table after a single run over the rows before: a stored row takes the
\* customer, quantity and amounts of the row written for its key
SalesAfterOneRun(before) ==
  {IF \E w \in WrittenSales : SameSaleKey(r, w)
   THEN LET w == CHOOSE w \in WrittenSales : SameSaleKey(r, w)
        IN [r EXCEPT !.customer_id = w.customer_id, !.quantity = w.quantity,
                     !.unit_price = w.unit_price, !.total_amount = w.total_amount]
   ELSE r : r \in before}
    \cup {w \in WrittenSales : ~\E r \in before : SameSaleKey(r, w)}
WrittenReceipts ==
  {[item_id |-> l.item_id, receipt_id |-> "r3", received_date |-> 1,
    qty_received |-> l.qty, unit_cost |-> l.unit_cost,
    item_name |-> UpstreamItem(l.item_id).name,
    category |-> UpstreamItem(l.item_id).category, vendor |-> VendorOf(l.item_id)] :
     l \in {[item_id |-> "i1", qty |-> 2, unit_cost |-> 250],
            [item_id |-> "i2", qty |-> 1, unit_cost |-> 100]}}
ReceiptsAfterOneRun(before) ==
  {r \in before : ~\E w \in WrittenReceipts :
                     w.item_id = r.item_id /\ w.receipt_id = r.receipt_id}
    \cup WrittenReceipts
CustomersAfterOneRun(before, sales) ==
  LET ids == {c.id : c \in SeqToSet(upstreamCustomers)} \ {NoItem}
  IN {r \in before : r.heartland_customer_id \notin ids}
       \cup {[heartland_customer_id |-> c.id, first_name |-> c.first_name,
              total_purchases |->
                Cardinality({r.transaction_date \div DayLen :
                               r \in {q \in sales : q.customer_id = c.id}}),
              lifetime_value |->
                Sum([r \in {q \in sales : q.customer_id = c.id} |-> r.total_amount],
                    {q \in sales : q.customer_id = c.id}),
              first_purchase_date |->
                IF \E q \in sales : q.customer_id = c.id
                THEN Min({q.transaction_date : q \in {q \in sales : q.customer_id = c.id}})
                ELSE NoTime,
              last_purchase_date |->
                Max({q.transaction_date : q \in {q \in sales : q.customer_id = c.id}}
                      \cup {NoTime}),
              preferred_brands |->
                CHOOSE q \in TopLists(sales, c.id, "brand", "") : TRUE,
              preferred_sizes |->
                CHOOSE q \in DistinctLists(sales, c.id, "item_size") : TRUE,
              preferred_categories |->
                CHOOSE q \in TopLists(sales, c.id, "category", "Uncategorized") :
                  TRUE] :
             c \in {d \in SeqToSet(upstreamCustomers) : d.id # NoItem}}
UniqueKeys ==
  /\ \A r, q \in sales_transactions : SameSaleKey(r, q) => r = q
  /\ \A r, q \in item_receipts :
       (r.item_id = q.item_id /\ r.receipt_id = q.receipt_id) => r = q
  /\ \A r, q \in customers :
       r.heartland_customer_id = q.heartland_customer_id => r = q
BothOver ==
  /\ \A n \in NightlySlots : nightly[n].pc = "idle"
  /\ \A k \in 1..Len(sync_log) : sync_log[k].status = "completed"

\* C15: two runs interleaved step by step over the same upstream data,
\* without failures: no table ever holds two rows for one unique key, and
\* when both runs are over the ReceiveEvent, SaleEvent and CustomerProfile
\* tables are those a single run leaves
C15_TwoRunsAsOne ==
  /\ UniqueKeys
  /\ BothOver =>
       /\ sales_transactions = SalesAfterOneRun(EarlierSales)
       /\ item_receipts = ReceiptsAfterOneRun(EarlierSettled)
       /\ customers = CustomersAfterOneRun(EarlierCustomers,
                                           SalesAfterOneRun(EarlierSales))

\* both runs are over, and they overlapped: the run that looked the vendor up
\* first (its name is the cached one) is also the one that saved its snapshot
\* last
C15_Witness ==
  /\ BothOver
  /\ Len(sync_log) = 2
  /\ lastWrite.by = "n1"
  /\ CachedVendor("v1").by = 1
  /\ \E r \in sales_transactions : r.heartland_ticket_id = "t2"
  /\ Cardinality(item_receipts) = 2

\* the row stored for the key of w, if any
StoredSale(rows, w) == {r \in rows : SameSaleKey(r, w)}

C17_RowErrorSkipsRow ==
  /\ [][\A n \in NightlySlots :
          /\ NightlyUpsertSaleError(n) =>
               /\ nightly'[n].pc = "insert"
               /\ nightly'[n].sales = Tail(nightly[n].sales)
          /\ NightlyUpsertCustomerError(n) =>
               /\ nightly'[n].pc = "customer"
               /\ nightly'[n].custs = Tail(nightly[n].custs)
          /\ NightlyUpsertReceiptError(n) =>
               nightly'[n] = AfterLine(nightly[n], Tail(nightly[n].lines))]_vars
  /\ [](\A k \in 1..Len(sync_log) :
          sync_log[k].status = "failed" =>
            sync_log[k].error_message # "customer upsert")

\* C18: in the receiving ingestion, a line whose item request fails is
\* dropped (the run is at the next line and item_receipts is never written
\* for the failed line), a document whose lines request fails is skipped
\* (the run is at the next document, nothing written), and the run goes on
C18_FailedFetchDropsLine ==
  [][\A n \in NightlySlots :
       /\ NightlyFetchItemError(n) =>
            nightly'[n] = AfterLine(nightly[n], Tail(nightly[n].lines))
       /\ (/\ nightly[n].pc = "upsert"
           /\ nightly[n].details = DefaultDetails
           /\ nightly'[n] # nightly[n]) => item_receipts' = item_receipts
       /\ NightlyFetchLinesError(n) =>
            /\ nightly'[n].pc = "receipt"
            /\ nightly'[n].receipts = Tail(nightly[n].receipts)
            /\ item_receipts' = item_receipts]_vars

\* ------------------------------------------------------------------------
\* A later run in the same process: run 1 has ingested document r3 (looking
\* vendor v1 up as Acme) and completed; since then v1 has been renamed Zeta
\* upstream and sales have come in; run 2 is at its first fetch
\* ------------------------------------------------------------------------
AfterRunOne ==
  {[item_id |-> "i1", receipt_id |-> "r3", received_date |-> 1,
    qty_received |-> 2, unit_cost |-> 250, item_name |-> "Blouse",
    category |-> "Tops", vendor |-> "Acme"],
   [item_id |-> "i2", receipt_id |-> "r3", received_date |-> 1,
    qty_received |-> 1, unit_cost |-> 100, item_name |-> "Blouse",
    category |-> "Tops", vendor |-> "Unknown"]}
CompletedLog ==
  <<[status |-> "completed", records_processed |-> 2, started_at |-> 0,
     error_message |-> "null"]>>

InitRename ==
  /\ clock = 1
  /\ item_receipts = AfterRunOne
  /\ sales_transactions = {}
  /\ customers = {}
  /\ sales_cache = {}
  /\ inventory_cache = {}
  /\ upstreamSales = RunSales
  /\ upstreamCustomers = RunCustomers
  /\ upstreamInventory = <<InventoryEntry("i1", 2)>>
  /\ upstreamReceipts = {"r3"}
  /\ upstreamVendor = "Zeta"
  /\ vendorCache = VendorCacheSet({}, "v1", "Acme", 1)
  /\ sync = EngineIdle
  /\ sync_log = CompletedLog \o RunningLog
  /\ nightly = OnlyFirst([AtStep1 EXCEPT !.logId = 2])
  /\ dataResponse = NoResponse
  /\ lastWrite = NoWrite
  /\ triggerResponse = NoResponse
  /\ QuietStatuses

\* the steps of the run: with v1 cached no vendor request is ever made
RenameNext == SalesNext \/ CustomersNext \/ ReceiptsNext \/ NightlyEngineNext

SpecRename == InitRename /\ [][RenameNext]_vars

\* the vendor names a run holds at the moment
HeldVendors(run) ==
  {run.itemDetailsCache[i].vendor : i \in DOMAIN run.itemDetailsCache}
    \cup {run.details.vendor}

\* C19: a run reads no vendor-cache entry that another run wrote, so every
\* vendor name it holds is the upstream name at the time (or the default of
\* an item without vendor or of a failed request); its item-metadata cache
\* holds only items of its own sales fetch
C19_CachesPerRun ==
  \A n \in NightlySlots :
    nightly[n].pc # "idle" =>
      /\ nightly[n].vendorFrom \in {0, nightly[n].logId}
      /\ HeldVendors(nightly[n]) \subseteq {"Unknown", "Unknown Vendor", upstreamVendor}
      /\ DOMAIN nightly[n].itemDetailsCache \subseteq
           {upstreamSales[k].item_id : k \in 1..Len(upstreamSales)}

\* ------------------------------------------------------------------------
\* The status updates and reads alone
\* ------------------------------------------------------------------------
InitStatus ==
  /\ clock = 0
  /\ item_receipts = {}
  /\ sales_transactions = {}
  /\ inventory_cache = {}
  /\ upstreamInventory = <<>>
  /\ upstreamReceipts = {}
  /\ sync = EngineIdle
  /\ sync_log = <<>>
  /\ nightly = [n \in NightlySlots |-> NightlyIdle]
  /\ dataResponse = NoResponse
  /\ lastWrite = NoWrite
  /\ QuietInit

SpecStatus == InitStatus /\ [][StatusNext]_vars

\* one row at most per key, holding the status stored last for the key
LastWriteWins ==
  \A k \in UsedKeys :
    /\ Cardinality(RowsOfKey(processed_items, k[1], k[2])) <= 1
    /\ HeldStatuses(processed_items, k[1], k[2]) =
         IF lastStatus[k].writes = 0 THEN {} ELSE {lastStatus[k].status}

\* C20: after any updates (PUT /api/items, PUT /api/grids, the item and grid
\* skips, the receipt skip) there is one row at most per (entity type, entity
\* id), its status is the one stored by the most recent update of the key,
\* and a getItemStatus whose query the store answers returns that status, or
\* 'new' when there is no row (a getItemStatus whose query throws returns
\* 'new')
C20_StatusLastWriteWins ==
  /\ LastWriteWins
  /\ (statusResponse.op = "get" /\ ~statusResponse.failed) =>
       statusResponse.held =
         IF statusResponse.status = "new" THEN statusResponse.held \cap {"new"}
         ELSE {statusResponse.status}
  /\ (statusResponse.op = "get" /\ statusResponse.failed) =>
       statusResponse.status = "new"

\* item i1 has been given a status more than once, last by the receipt skip
\* of r1, and getItemStatus has answered 'skipped' for it, while grid g1 is
\* completed
C20_Witness ==
  /\ lastStatus[<<"item", "i1">>].writes = MaxWrites
  /\ StatusRow("item", "i1", "skipped", "r1") \in processed_items
  /\ StatusRow("grid", "g1", "completed", NoReceipt) \in processed_items
  /\ statusResponse = StatusAnswer("get", "item", "i1", "skipped", FALSE, {"skipped"})

\* ------------------------------------------------------------------------
\* C21: in every reachable state the status of every processed_items row is
\* one of new, completed, skipped, whatever bodies the update endpoints
\* receive
\* ------------------------------------------------------------------------
ProcessingStatuses == {"new", "completed", "skipped"}

C21_StatusDomain ==
  \A r \in processed_items : r.status \in ProcessingStatuses

\* ------------------------------------------------------------------------
\* Step 4 of a run over the sales rows of a customer who bought six sizes,
\* six brands or six categories, next to a row of another customer
\* ------------------------------------------------------------------------
SixTickets == <<"t1", "t2", "t3", "t4", "t5", "t6">>
SixSizes == <<"XS", "S", "M", "L", "XL", "XXL">>
SixBrands == <<"Acme", "Zeta", "Bell", "Cove", "Dune", "Elm">>
SixCategories == <<"Tops", "Skirts", "Shoes", "Bags", "Hats", "Belts">>
ProfileSale(k, customer, brand, size, category) ==
  SaleRecord(SixTickets[k], "0", customer, "i1", k - 1, 1, 1000 * k, 1000 * k,
             [category |-> category, vendor |-> brand, brand |-> brand,
              name |-> "Blouse", size |-> size])
OtherCustomerSale == ProfileSale(1, "c2", "Unknown", "", "Uncategorized")
ProfileScenarios ==
  {{ProfileSale(k, "c1", "Acme", SixSizes[k], "Tops") : k \in 1..6},
   {ProfileSale(k, "c1", SixBrands[k], "M", "Tops") : k \in 1..6},
   {ProfileSale(k, "c1", SixBrands[(k + 1) \div 2], "M", SixCategories[k]) :
      k \in 1..6}}
ProfileCustomers == <<UpstreamCustomer("c1", "Ann"), UpstreamCustomer("c2", "Bob")>>
AtStep4 == [NightlyIdle EXCEPT !.pc = "customers", !.logId = 1]

InitProfiles ==
  /\ clock = 1
  /\ item_receipts = {}
  /\ \E rows \in ProfileScenarios :
       sales_transactions = rows \cup {[OtherCustomerSale EXCEPT
                                          !.heartland_line_id = "1"]}
  /\ customers \in {{}, EarlierCustomers}
  /\ sales_cache = {}
  /\ inventory_cache = {}
  /\ upstreamSales = <<>>
  /\ upstreamCustomers = ProfileCustomers
  /\ upstreamInventory = <<>>
  /\ upstreamReceipts = {}
  /\ upstreamVendor = "Acme"
  /\ vendorCache = {}
  /\ sync = EngineIdle
  /\ sync_log = RunningLog
  /\ nightly = OnlyFirst(AtStep4)
  /\ dataResponse = NoResponse
  /\ lastWrite = NoWrite
  /\ triggerResponse = NoResponse
  /\ QuietStatuses

SpecProfiles == InitProfiles /\ [][CustomersNext]_vars

\* the profiles the run at hand has upserted so far
Rebuilt ==
  {r \in customers :
     \E k \in 1..nightly["n1"].customerCount :
       ProfileCustomers[k].id = r.heartland_customer_id}
PreferredCapped(r) ==
  /\ Len(r.preferred_brands) <= MaxPreferred
  /\ Len(r.preferred_sizes) <= MaxPreferred
  /\ Len(r.preferred_categories) <= MaxPreferred
TotalsFromOwnRows(r) ==
  LET own == {q \in sales_transactions : q.customer_id = r.heartland_customer_id}
  IN /\ r.total_purchases = Cardinality({q.transaction_date \div DayLen : q \in own})
     /\ r.lifetime_value = Sum([q \in own |-> q.total_amount], own)
     /\ r.first_purchase_date = Min({q.transaction_date : q \in own})
     /\ r.last_purchase_date = Max({q.transaction_date : q \in own})
     /\ SeqToSet(r.preferred_brands) \subseteq {q.brand : q \in own}
     /\ SeqToSet(r.preferred_sizes) \subseteq {q.item_size : q \in own}
     /\ SeqToSet(r.preferred_categories) \subseteq {q.category : q \in own}

\* C22: after the rebuild of the customer profiles, the preferred brands,
\* sizes and categories of every profile hold at most 5 entries each, and the
\* profile's totals are those of the sales rows of its customer identifier
C22_ProfilesCapped ==
  \A r \in Rebuilt : PreferredCapped(r) /\ TotalsFromOwnRows(r)

C24_CompletedMeansFresh ==
  [][\A n \in NightlySlots :
       NightlyComplete(n) =>
         /\ ~nightly[n].invError
         /\ \E row \in inventory_cache :
              /\ row.cache_key = "inventory_analysis"
              /\ row.synced_at >= sync_log[nightly[n].logId].started_at]_vars

\* the run is about to compute over the inputs of the last write: the same
\* 'now', the same inventory responses (the tables do not change meanwhile)
SameInputs(run) ==
  /\ lastWrite.now = run.now
  /\ lastWrite.allInventory = run.allInventory
  /\ lastWrite.fetchFailed = run.fetchFailed
  /\ lastWrite.data.velocity.byCategory = run.categoryVelocity
  /\ lastWrite.data.velocity.byVendor = run.vendorVelocity

InitPages ==
  /\ clock = 0
  /\ item_receipts = {}
  /\ sales_transactions = {}
  /\ inventory_cache = {}
  /\ upstreamInventory = <<>>
  /\ upstreamReceipts = {}
  /\ sync = EngineIdle
  /\ sync_log = <<>>
  /\ nightly = [n \in NightlySlots |-> NightlyIdle]
  /\ dataResponse = NoResponse
  /\ lastWrite = NoWrite
  /\ QuietInit

SpecPages == InitPages /\ [][PagesNext]_vars

\* the results of the pages answered, in page order
RECURSIVE Concatenated(_)
Concatenated(sizes) ==
  IF sizes = <<>> THEN <<>>
  ELSE Concatenated(SubSeq(sizes, 1, Len(sizes) - 1))
         \o [k \in 1..sizes[Len(sizes)] |-> <<Len(sizes), k>>]

\* C26: a call of fetchAllPages makes at most maxPages requests, for the
\* pages 1, 2, ... in order; every page before the last one answered was
\* full; it returns once a page comes short or empty (or maxPages pages were
\* full), and then returns the results of all the pages answered, in page
\* order; when a request fails the failure reaches the caller and nothing is
\* returned
C26_FetchAllPages ==
  /\ Len(fetchAll.requests) <= fetchAll.maxPages
  /\ fetchAll.requests = [k \in 1..Len(fetchAll.requests) |-> k]
  /\ \A k \in 1..(Len(fetchAll.sizes) - 1) : fetchAll.sizes[k] = PerPage
  /\ fetchAll.pc = "loop" => fetchAll.allResults = Concatenated(fetchAll.sizes)
  /\ fetchAll.pc = "returned" =>
       /\ fetchAll.returned = Concatenated(fetchAll.sizes)
       /\ Len(fetchAll.sizes) = Len(fetchAll.requests)
       /\ \/ fetchAll.sizes[Len(fetchAll.sizes)] < PerPage
          \/ Len(fetchAll.requests) = fetchAll.maxPages
  /\ fetchAll.pc = "thrown" =>
       /\ fetchAll.returned = NoResult
       /\ fetchAll.allResults = <<>>
       /\ Len(fetchAll.requests) = Len(fetchAll.sizes) + 1
  /\ fetchAll.pc # "returned" => fetchAll.returned = NoResult

\* a call that returned after maxPages full pages, with all their results
C26_Witness ==
  /\ fetchAll.pc = "returned"
  /\ Len(fetchAll.requests) = DefaultMaxPages
  /\ fetchAll.sizes[DefaultMaxPages] = PerPage
  /\ Len(fetchAll.returned) = DefaultMaxPages * PerPage

\* C27: in every snapshot each pctOnHandNDays is an integer from 0 to 100 and
\* stillOnHandNDays does not exceed receivedNDays
C27_PctWithinBounds ==
  \A row \in inventory_cache :
    \A N \in Windows :
      LET m == row.data.deadStock.storeMetrics[N]
      IN /\ m.pctOnHand \in 0..100
         /\ m.stillOnHand <= m.received

\* ------------------------------------------------------------------------
\* The receiving ingestion of whole documents: a run over r1, r3 and r4 into
\* an empty item_receipts, every request for receipts and lines answered and
\* every upsert stored
\* ------------------------------------------------------------------------
InitLines ==
  /\ clock = 1
  /\ item_receipts = {}
  /\ sales_transactions = {}
  /\ inventory_cache = {}
  /\ upstreamInventory = <<InventoryEntry("i1", 2)>>
  /\ upstreamReceipts = {"r1", "r3", "r4"}
  /\ sync = EngineIdle
  /\ sync_log = RunningLog
  /\ nightly = OnlyFirst(AtStep6)
  /\ dataResponse = NoResponse
  /\ lastWrite = NoWrite
  /\ QuietInit

LinesNext ==
  \E n \in NightlySlots :
    \/ NightlyFetchReceipts(n) \/ NightlyFetchLines(n)
    \/ NightlyFetchItem(n) \/ NightlyFetchItemError(n)
    \/ NightlyFetchVendor(n) \/ NightlyFetchVendorError(n)
    \/ NightlyUpsertReceipt(n) \/ NightlyReceiptsDone(n)

SpecLines == InitLines /\ [][LinesNext]_vars

\* the ReceiveEvent rows of a document, and the sum of a field over rows
RowsOfReceipt(id) == {r \in item_receipts : r.receipt_id = id}
RECURSIVE QtyOfRows(_)
QtyOfRows(rows) ==
  IF rows = {} THEN 0
  ELSE LET r == CHOOSE x \in rows : TRUE
       IN r.qty_received + QtyOfRows(rows \ {r})
RECURSIVE QtyOfLines(_)
QtyOfLines(lines) ==
  IF lines = <<>> THEN 0 ELSE Head(lines).qty + QtyOfLines(Tail(lines))
\* step 6 of the run n1 is over
Ingested == nightly["n1"].pc = "category"

\* C28: after a document is ingested it has one ReceiveEvent row per line
\* that carries an item identifier, and the quantities of the rows sum to the
\* quantities of those lines, also when two lines reference the same item
C28_OneRowPerLine ==
  Ingested =>
    LET lines == WithItem(TwoLinesOneItem)
    IN /\ Cardinality(RowsOfReceipt("r4")) = Len(lines)
       /\ QtyOfRows(RowsOfReceipt("r4")) = QtyOfLines(lines)

\* ------------------------------------------------------------------------
\* The receipt list: the status updates, the skips and GET /api/receipts over
\* a receipt_cache that holds r1 (of today) and r3 (too old to be listed)
\* ------------------------------------------------------------------------
\* grid_count: none (gridCount defaults to 1), or as many as the keys in use
GridCounts == {0, 2}
OldReceipt == CacheRow("r3", 0 - (Window30 * DayLen + 1), 1)

InitReceipts ==
  /\ clock = 0
  /\ item_receipts = {}
  /\ sales_transactions = {}
  /\ inventory_cache = {}
  /\ upstreamInventory = <<>>
  /\ upstreamReceipts = {}
  /\ sync = EngineIdle
  /\ sync_log = <<>>
  /\ nightly = [n \in NightlySlots |-> NightlyIdle]
  /\ dataResponse = NoResponse
  /\ lastWrite = NoWrite
  /\ customers = {}
  /\ sales_cache = {}
  /\ vendorCache = {}
  /\ upstreamSales = <<>>
  /\ upstreamCustomers = <<>>
  /\ upstreamVendor = "Acme"
  /\ triggerResponse = NoResponse
  /\ processed_items = {}
  /\ statusResponse = NoStatus
  /\ receiptSkip = SkipIdle
  /\ lastStatus = [k \in UsedKeys |-> NeverStored]
  /\ receipt_cache \in {{CacheRow("r1", 0, gc), OldReceipt} : gc \in GridCounts}
  /\ receiptsResponse = NoReceipts
  /\ fetchAll = FetchIdle

ListingNext ==
  \/ PutStatus \/ SkipStatus
  \/ ReceiptSkipBegin \/ ReceiptSkipWrite \/ ReceiptSkipError
  \/ ReceiptSkipRespond
  \/ ReceiptsListNext

SpecReceipts == InitReceipts /\ [][ListingNext]_vars

\* the status the four cases assign to the counts of a receipt
ClaimStatus(completed, skipped, gridCount) ==
  IF completed + skipped = 0 THEN "new"
  ELSE IF completed + skipped < gridCount THEN "in_progress"
  ELSE IF skipped >= gridCount /\ completed = 0 THEN "skipped"
  ELSE "completed"
\* the rows attributed to a receipt with a given status
Attributed(rows, id, status) ==
  {p \in rows : p.receipt_id = id /\ p.status = status}
\* GET /api/receipts answers with the status query answered
Listed(before, after) ==
  after # before /\ after.code = 200 /\ ~after.failed

\* C29: when GET /api/receipts answers (the status query answered), every
\* cached receipt of the last 30 days is listed once, and its status follows
\* from the numbers of completed and skipped rows attributed to it and its
\* gridCount by the four cases
C29_StatusFromCounts ==
  [][Listed(receiptsResponse, receiptsResponse') =>
       /\ \A r \in CachedResult(receipt_cache, clock) :
            Cardinality({e \in receiptsResponse'.receipts :
                           e.heartlandId = r.heartland_id}) = 1
       /\ \A e \in receiptsResponse'.receipts :
            e.cached =>
              /\ e.gridCount >= 1
              /\ e.status =
                   ClaimStatus(
                     Cardinality(Attributed(processed_items, e.heartlandId,
                                            "completed")),
                     Cardinality(Attributed(processed_items, e.heartlandId,
                                            "skipped")),
                     e.gridCount)]_vars

\* r1 is listed as skipped, as completed or as in progress
C29_Witness ==
  /\ receiptsResponse.code = 200 /\ ~receiptsResponse.failed
  /\ \E e \in receiptsResponse.receipts :
       /\ e.cached /\ e.status = "skipped" /\ e.gridCount = 2
       /\ e.skipped = 2 /\ e.completed = 0

\* the number of rows attributed to a receipt that are completed or skipped
DoneCount(rows, id) ==
  Cardinality(Attributed(rows, id, "completed"))
    + Cardinality(Attributed(rows, id, "skipped"))
\* the status GET /api/receipts reported for a receipt, when it reported one
Reported(response, id) ==
  {e.status : e \in {x \in response.receipts : x.heartlandId = id}}

\* C30: under the item and grid updates and the skips the number of completed
\* or skipped rows attributed to a receipt never decreases, and a receipt that
\* was reported completed or skipped is not reported in_progress or new by
\* the next answer
C30_DoneNeverDecreases ==
  [][/\ DoneCount(processed_items', "r1") >= DoneCount(processed_items, "r1")
     /\ (/\ Listed(receiptsResponse, receiptsResponse')
         /\ Reported(receiptsResponse, "r1") \subseteq {"completed", "skipped"}
         /\ Reported(receiptsResponse, "r1") # {})
          => Reported(receiptsResponse', "r1") \subseteq {"completed", "skipped"}
    ]_vars

====
